---- MODULE Spec2Model ----
(***************************************************************************)
(* Model of DeviceLauncherService (src/services/                           *)
(* device-launcher.service.ts): the Android emulator / iOS simulator       *)
(* lifecycle driven by the WDIO hooks onPrepare, beforeSession and         *)
(* onComplete.                                                             *)
(*                                                                         *)
(* External commands (adb, emulator, xcrun) are the environment: every     *)
(* command either throws or yields a stdout, chosen nondeterministically.  *)
(* A stdout is a sequence of tokens; white space is kept as tokens so that *)
(* String.trim() is modelled by what it removes.                           *)
(***************************************************************************)
EXTENDS Integers, Sequences, FiniteSets, TLC

(***************************************************************************)
(* Bounds of the model                                                     *)
(***************************************************************************)
\* longest device table printed by "adb devices"
MaxListed == 2
\* largest value of ANDROID_EMULATOR_RETRIES explored when it is set
MaxEmulatorRetries == 1
\* largest value of ANDROID_HEALTHCHECK_RETRIES explored when it is set
MaxHealthRetries == 1
\* the per-call command counters saturate here
CountCap == 4

(***************************************************************************)
(* Values                                                                  *)
(***************************************************************************)
\* an unset optional string (the fields androidSerial / iosUdid start so)
Undefined == "undefined"

\* optional numbers and booleans are sets: {} is undefined, {v} is v
Nullish(v, d) == IF v = {} THEN d ELSE CHOOSE x \in v : TRUE

Max(a, b) == IF a >= b THEN a ELSE b
Min(a, b) == IF a <= b THEN a ELSE b

EmulatorSerials == {"emulator-5554", "emulator-5556"}
Devices == EmulatorSerials \cup {"R58M123"}
\* d.startsWith('emulator-')
StartsWithEmulator(d) == d \in EmulatorSerials

WhiteSpace == {" ", "\n", "\t"}

RECURSIVE TrimStart(_)
TrimStart(s) ==
  IF s = <<>> THEN <<>>
  ELSE IF Head(s) \in WhiteSpace THEN TrimStart(Tail(s)) ELSE s

RECURSIVE TrimEnd(_)
TrimEnd(s) ==
  IF s = <<>> THEN <<>>
  ELSE IF s[Len(s)] \in WhiteSpace THEN TrimEnd(SubSeq(s, 1, Len(s) - 1)) ELSE s

\* String.prototype.trim on a token sequence
Trim(s) == TrimEnd(TrimStart(s))

\* String.prototype.includes for one token
Includes(s, tok) == \E i \in 1..Len(s) : s[i] = tok

(***************************************************************************)
(* Outcome of one external command                                         *)
(***************************************************************************)
Threw == [threw |-> TRUE, stdout |-> <<>>]
Out(s) == [threw |-> FALSE, stdout |-> s]
Outcomes(outs) == {Threw} \cup {Out(s) : s \in outs}
\* commands whose stdout is never read
Done == Out(<<>>)
Plain == {Threw, Done}

\* "adb devices": a header line, then one line "<serial>\t<status>" per
\* device, then an empty line.  A line is the tuple of its tab-separated
\* columns; the empty line is <<>>.
Header == <<"List of devices attached">>
DeviceLine(d) == <<d, "device">>

RECURSIVE DeviceTables(_)
DeviceTables(n) ==
  IF n = 0 THEN {<<>>}
  ELSE LET shorter == DeviceTables(n - 1)
       IN  shorter \cup
           {Append(t, d) : t \in {u \in shorter : Len(u) = n - 1},
                           d \in Devices}

NoRepeat(t) == \A i, j \in 1..Len(t) : i # j => t[i] # t[j]

ListStdouts ==
  {<<Header>> \o [i \in 1..Len(t) |-> DeviceLine(t[i])] \o <<<<>>>> :
     t \in {u \in DeviceTables(MaxListed) : NoRepeat(u)}}

ListOutcomes == Outcomes(ListStdouts)

RECURSIVE FirstColumns(_)
FirstColumns(lines) ==
  IF lines = <<>> THEN <<>>
  ELSE LET l == Head(lines)
           rest == FirstColumns(Tail(lines))
       IN  IF l = <<>> THEN rest ELSE <<l[1]>> \o rest

\* adbDevices(): drop the header, take the first column, drop empty lines
AdbDevices(stdout) == FirstColumns(Tail(stdout))

\* Array.prototype.find(d => d.startsWith('emulator-'))
RECURSIVE FindEmulator(_)
FindEmulator(ds) ==
  IF ds = <<>> THEN Undefined
  ELSE IF StartsWithEmulator(Head(ds)) THEN Head(ds) ELSE FindEmulator(Tail(ds))

ListIncludes(ds, serialNo) == \E i \in 1..Len(ds) : ds[i] = serialNo

(***************************************************************************)
(* Stdouts of the probes                                                   *)
(***************************************************************************)
\* adb get-state
StateStdouts == {<<"device", "\n">>, <<"offline", "\n">>}
\* getprop ro.build.version.release
ReleaseStdouts == {<<"14", "\n">>, <<"\n">>}
\* pm path android
PmStdouts == {<<"package:", "/system/framework/framework-res.apk", "\n">>, <<"\n">>}
\* getprop sys.boot_completed / dev.bootcomplete
BootStdouts == {<<"1", "\n">>, <<"\n">>}
\* getprop init.svc.bootanim
AnimStdouts == {<<"stopped", "\n">>, <<"running", "\n">>, <<"\n">>}

\* the answers of the environment to one isAndroidHealthy call
HealthProbes ==
  [list : ListOutcomes, state : Outcomes(StateStdouts),
   rel : Outcomes(ReleaseStdouts), pm : Outcomes(PmStdouts),
   s1 : Outcomes(BootStdouts), s2 : Outcomes(BootStdouts)]

\* execAdb(...).then(r => r.stdout.trim()).catch(() => '')
TrimOrEmpty(o) == IF o.threw THEN <<>> ELSE Trim(o.stdout)
\* the package-manager probe with a catch that answers true
PmResponsiveCatchTrue(o) ==
  IF o.threw THEN TRUE ELSE Includes(o.stdout, "package:")
\* execAdb(...).then(r => r.stdout.includes('package:')).catch(() => false)
PmResponsive(o) == IF o.threw THEN FALSE ELSE Includes(o.stdout, "package:")

\* threw: the call rejected; ok: the value returned; issued, slept: the
\* commands issued and the sleeps made; sig: a read of sys.boot_completed
\* gave "1"
HealthResult(threw, ok, issued, slept, sig) ==
  [threw |-> threw, ok |-> ok, cmds |-> issued, slept |-> slept, sig |-> sig]

\* the body of the try block of isAndroidHealthy
HealthTry(serialNo, p, interval) ==
  IF p.list.threw
    THEN HealthResult(TRUE, FALSE, <<"devices">>, <<>>, FALSE)
  ELSE IF ~ListIncludes(AdbDevices(p.list.stdout), serialNo)
    THEN HealthResult(FALSE, FALSE, <<"devices">>, <<>>, FALSE)
  ELSE IF TrimOrEmpty(p.state) # <<"device">>
    THEN HealthResult(FALSE, FALSE, <<"devices", "get-state">>, <<>>, FALSE)
  ELSE IF TrimOrEmpty(p.rel) = <<>>
    THEN HealthResult(FALSE, FALSE, <<"devices", "get-state", "release">>,
                      <<>>, FALSE)
  ELSE IF ~PmResponsive(p.pm)
    THEN HealthResult(FALSE, FALSE,
                      <<"devices", "get-state", "release", "pm">>, <<>>, FALSE)
  ELSE IF TrimOrEmpty(p.s1) # <<"1">>
    THEN HealthResult(FALSE, TrimOrEmpty(p.s2) = <<"1">>,
                      <<"devices", "get-state", "release", "pm",
                        "boot_completed", "boot_completed">>,
                      <<interval>>, TrimOrEmpty(p.s2) = <<"1">>)
  ELSE HealthResult(FALSE, TRUE,
                    <<"devices", "get-state", "release", "pm",
                      "boot_completed">>, <<>>, TRUE)

\* isAndroidHealthy(serial): try { ... } catch { return false }
IsAndroidHealthy(serialNo, p, interval) ==
  LET r == HealthTry(serialNo, p, interval)
  IN  IF r.threw THEN [r EXCEPT !.threw = FALSE, !.ok = FALSE] ELSE r

\* stopAndroid with no catch on the kill-server fallback
StopAndroidNoCatch(serialNo, kill, killServer) ==
  IF serialNo = Undefined
    THEN [cmds |-> <<>>, threw |-> FALSE]
  ELSE IF kill.threw
    THEN [cmds |-> << <<"emu kill", serialNo>>, <<"kill-server", Undefined>> >>,
          threw |-> killServer.threw]
  ELSE [cmds |-> << <<"emu kill", serialNo>> >>, threw |-> FALSE]
\* stopAndroid(): the commands issued (name, target) and whether it raised
StopAndroid(serialNo, kill, killServer) ==
  IF serialNo = Undefined
    THEN [cmds |-> <<>>, threw |-> FALSE]
  ELSE IF kill.threw
    THEN [cmds |-> << <<"emu kill", serialNo>>, <<"kill-server", Undefined>> >>,
          threw |-> FALSE]
  ELSE [cmds |-> << <<"emu kill", serialNo>> >>, threw |-> FALSE]

\* the answers of the environment to one round of waitForBootComplete
BootProbes ==
  [p1 : Outcomes(BootStdouts), p2 : Outcomes(BootStdouts),
   p3 : Outcomes(AnimStdouts), pm : Outcomes(PmStdouts)]

\* bootOk = s1 === '1' || s2 === '1'
BootOk(b) == TrimOrEmpty(b.p1) = <<"1">> \/ TrimOrEmpty(b.p2) = <<"1">>
\* animOk = !s3 || s3 === 'stopped'
AnimOk(b) == TrimOrEmpty(b.p3) = <<>> \/ TrimOrEmpty(b.p3) = <<"stopped">>
\* the loop exit with bootOk missing from its second disjunct
BootRoundDoneNoBootOk(b) ==
  (BootOk(b) /\ AnimOk(b)) \/ PmResponsive(b.pm)
\* if ((bootOk && animOk) || (bootOk && pmOk)) return
BootRoundDone(b) ==
  (BootOk(b) /\ AnimOk(b)) \/ (BootOk(b) /\ PmResponsive(b.pm))

\* the "last chance quick check" after the deadline
LastChanceOk(o) == ~o.threw /\ Trim(o.stdout) = <<"1">>

(***************************************************************************)
(* Configuration: constructor options and process.env                      *)
(***************************************************************************)
\* bootTimeoutMs ?? 240_000 (android)
DefaultAndroidBootTimeoutMs == 240000
\* bootTimeoutMs ?? 120_000 (ios)
DefaultIosBootTimeoutMs == 120000
\* ANDROID_EMULATOR_RETRIES ?? 2
DefaultEmulatorRetries == 2
\* ANDROID_HEALTHCHECK_RETRIES ?? 3
DefaultHealthRetries == 3
\* ANDROID_HEALTHCHECK_INTERVAL_MS ?? 1500
DefaultHealthIntervalMs == 1500
\* backoffBase
BackoffBase == 1500
\* sleep(1500) of the two android polling loops
PollSleepMs == 1500
\* sleep(1000) of the ios polling loop
IosPollSleepMs == 1000
\* Math.max(timeoutMs ?? 0, 60_000)
MinBootCompleteMs == 60000

\* a configured boot timeout short enough to expire after two polls
ShortBootTimeoutMs == 3000
\* a configured boot timeout that leaves more than the 60 s floor
LongBootTimeoutMs == 63000
\* a configured health-check interval
ShortHealthIntervalMs == 500
\* how long "adb wait-for-device" may block
LongWaitMs == 240000
WaitElapsed == {0, LongWaitMs}

BaseConfig ==
  [platform |-> "android",
   host |-> "darwin",
   avdName |-> {"Pixel_6_API_34"},
   bootTimeoutMs |-> {ShortBootTimeoutMs},
   killOnComplete |-> {},
   emulatorRetries |-> {0},
   healthRetries |-> {0},
   healthIntervalMs |-> {},
   coldRestartOnFail |-> {},
   coldBoot |-> FALSE,
   headless |-> {},
   udid |-> {}]

AndroidConfigs ==
  {BaseConfig,
   [BaseConfig EXCEPT !.avdName = {}],
   [BaseConfig EXCEPT !.bootTimeoutMs = {}],
   [BaseConfig EXCEPT !.bootTimeoutMs = {LongBootTimeoutMs}],
   [BaseConfig EXCEPT !.emulatorRetries = {}],
   [BaseConfig EXCEPT !.healthRetries = {}],
   [BaseConfig EXCEPT !.killOnComplete = {TRUE}, !.coldRestartOnFail = {TRUE},
                      !.coldBoot = TRUE,
                      !.healthIntervalMs = {ShortHealthIntervalMs}],
   [BaseConfig EXCEPT !.killOnComplete = {FALSE},
                      !.coldRestartOnFail = {FALSE}]}
  \cup {[BaseConfig EXCEPT !.emulatorRetries = {n}] : n \in 1..MaxEmulatorRetries}
  \cup {[BaseConfig EXCEPT !.healthRetries = {n}] : n \in 1..MaxHealthRetries}

IosBase == [BaseConfig EXCEPT !.platform = "ios"]

IosConfigs ==
  {IosBase,
   [IosBase EXCEPT !.host = "linux"],
   [IosBase EXCEPT !.bootTimeoutMs = {}],
   [IosBase EXCEPT !.udid = {"UDID-A"}],
   [IosBase EXCEPT !.headless = {TRUE}]}
  \cup {[IosBase EXCEPT !.killOnComplete = {b}] : b \in BOOLEAN}

Configs == AndroidConfigs \cup IosConfigs

\* Number(process.env.ANDROID_EMULATOR_RETRIES ?? 2)
EmulatorRetries(c) == Nullish(c.emulatorRetries, DefaultEmulatorRetries)
\* Number(process.env.ANDROID_HEALTHCHECK_RETRIES ?? 3)
HealthRetries(c) == Nullish(c.healthRetries, DefaultHealthRetries)
\* Number(process.env.ANDROID_HEALTHCHECK_INTERVAL_MS ?? 1500)
HealthInterval(c) == Nullish(c.healthIntervalMs, DefaultHealthIntervalMs)
\* this.opts.android?.bootTimeoutMs ?? 240_000
AndroidBootTimeout(c) == Nullish(c.bootTimeoutMs, DefaultAndroidBootTimeoutMs)
\* the ios boot timeout with the android default
IosBootTimeoutAndroidDefault(c) ==
  Nullish(c.bootTimeoutMs, DefaultAndroidBootTimeoutMs)
\* this.opts.ios?.bootTimeoutMs ?? 120_000
IosBootTimeout(c) == Nullish(c.bootTimeoutMs, DefaultIosBootTimeoutMs)
\* the policy with false for its default
ColdRestartDefaultFalse(c) == Nullish(c.coldRestartOnFail, FALSE)
\* envFlag('ANDROID_COLD_RESTART_ON_FAIL') ?? true
ColdRestart(c) == Nullish(c.coldRestartOnFail, TRUE)
\* this.opts.android?.killOnComplete ?? true
AndroidKillOnComplete(c) == Nullish(c.killOnComplete, TRUE)
\* the ios policy with the android default
IosKillOnCompleteDefaultTrue(c) == Nullish(c.killOnComplete, TRUE)
\* this.opts.ios?.killOnComplete ?? false
IosKillOnComplete(c) == Nullish(c.killOnComplete, FALSE)
\* a check of the profile name that lets the unnamed profile through
NoAvdNameIgnored(c) == FALSE
\* if (!avdName) return, avdName = opts.android?.avdName ||
\* process.env.ANDROID_EMULATOR_NAME
NoAvdName(c) == c.avdName = {}
\* the deadline of waitForBootComplete with no floor
BootCompleteBudgetNoFloor(left) == Max(left, 0)
\* Math.max(timeoutMs ?? 0, 60_000)
BootCompleteBudget(left) == Max(left, MinBootCompleteMs)
\* the catch block of ensureAndroidReadyWithRetry, in the order of its
\* statements: tryAdbRestart, then the sleep and "continue", or "throw e"
CatchBlock(again) ==
  <<"start-server", IF again THEN "sleep" ELSE "throw">>
\* a backoff that does not grow with the attempt
BackoffFlat(a) == BackoffBase
\* backoffBase * (attempt + 1)
Backoff(a) == BackoffBase * (a + 1)
\* if (attempt < retries) { sleep; continue } else throw e
RetryAgain(a, retries) == a < retries
\* the loop with "<" for "<="
HealthLoopRunsStrict(i, retries) == i < retries
\* for (let i = 0; i <= retries; i++)
HealthLoopRuns(i, retries) == i <= retries
\* the loop with "<=" for "<"
BeforeDeadlineInclusive(left) == left >= 0
\* while (Date.now() < deadline)
BeforeDeadline(left) == left > 0
\* the healthy branch with the assignment left out
StartedWhenHealthyForgotten(cur) == cur
\* startOrHealAndroid, healthy branch: this.started = true
StartedWhenHealthy(cur) == TRUE
\* the end of startAndroid with the flag flipped
StartedWhenBootedFlipped(cur) == ~cur
\* the end of startAndroid with the assignment left out
StartedWhenBootedForgotten(cur) == cur
\* startAndroid, after the unlock key event: this.started = true
StartedWhenBooted(cur) == TRUE

(***************************************************************************)
(* Errors                                                                  *)
(***************************************************************************)
\* an error carries its kind and the ensure-ready attempt that created it
Error(kind, at) == [kind |-> kind, at |-> at]
NoError == Error("none", 0)
\* tryAdbRestart with no catch: its failure takes the place of the error
\* in flight
TryAdbRestartUncaught(o, e) ==
  IF o.threw THEN Error("restartFailed", e.at) ELSE e
\* await this.tryAdbRestart() inside the catch block: try { exec } catch {}
\* leaves the error in flight as it was
TryAdbRestart(o, e) == e

(***************************************************************************)
(* State                                                                   *)
(***************************************************************************)
VARIABLES
  cfg,            \* this.opts and the process.env values read
  androidSerial,  \* this.androidSerial
  iosUdid,        \* this.iosUdid
  started,        \* this.started
  hook,           \* the hook being run, "idle" between hooks
  pc,             \* the await the hook is suspended at
  attempt,        \* ensureAndroidReadyWithRetry: attempt
  forceColdBoot,  \* startAndroid: forceColdBoot
  serial,         \* startAndroid: serial / startIOS: targetUdid
  remaining,      \* deadline - Date.now() of the loop being run
  hcI,            \* waitForAndroidHealthy: i
  err,            \* the error caught by ensureAndroidReadyWithRetry
  last,           \* how the last hook ended (failed: which of the stop
                  \* commands of onComplete threw)
  cmds,           \* commands issued by the current / last hook, per kind
  sleeps,         \* backoff sleeps of the current / last hook
  bootArgs,       \* whether the last emulator launch had -no-snapshot-load
  stopLog,        \* commands of the last stopAndroid
  whLog,          \* the current / last waitForAndroidHealthy
  sigSeen,        \* serials whose boot-completed signal read "1" / UDIDs
                  \* that isBooted answered true for (this hook)
  seenHealthy,    \* identifiers ever observed healthy / booted
  scen,           \* progress of the end-to-end scenario
  unit,           \* input and result of a method run on its own
  hist            \* history of the current / last hook: the emulator
                  \* processes it launched and has not asked to stop since,
                  \* whose listing entry the boot adopted, and what the
                  \* catch blocks of ensureAndroidReadyWithRetry did

vars ==
  <<cfg, androidSerial, iosUdid, started, hook, pc, attempt, forceColdBoot,
    serial, remaining, hcI, err, last, cmds, sleeps, bootArgs, stopLog,
    whLog, sigSeen, seenHealthy, scen, unit, hist>>

NoCmds ==
  [list |-> 0, probe |-> 0, boot |-> 0, kill |-> 0, killServer |-> 0,
   startServer |-> 0, other |-> 0]

Bump(c, f) == [c EXCEPT ![f] = Min(@ + 1, CountCap)]

RECURSIVE BumpAll(_, _)
BumpAll(c, fs) == IF fs = <<>> THEN c ELSE BumpAll(Bump(c, Head(fs)), Tail(fs))

\* the counter a stopAndroid command falls under
StopCounter(cmd) ==
  IF cmd[1] = "emu kill" THEN "kill"
  ELSE IF cmd[1] = "kill-server" THEN "killServer" ELSE "other"
StopCounters(cs) == [i \in 1..Len(cs) |-> StopCounter(cs[i])]

\* the counter a command of isAndroidHealthy falls under
HealthCounter(cmd) == IF cmd = "devices" THEN "list" ELSE "probe"
HealthCounters(cs) == [i \in 1..Len(cs) |-> HealthCounter(cs[i])]

NoWh == [checks |-> 0, slept |-> <<>>, ret |-> "none"]
\* what the code reads of one "adb devices": did it throw, and the first
\* emulator serial of the table
ListResult(o) ==
  [threw |-> o.threw,
   found |-> IF o.threw THEN Undefined ELSE FindEmulator(AdbDevices(o.stdout))]
ListResults == {ListResult(o) : o \in ListOutcomes}

\* the results isAndroidHealthy can give for a serial, over all answers of
\* the environment
HealthIntervals ==
  {HealthInterval(c) : c \in Configs}
HealthResults ==
  {[serial |-> s, interval |-> i, result |-> IsAndroidHealthy(s, p, i)] :
     s \in EmulatorSerials, i \in HealthIntervals, p \in HealthProbes}
HealthResultsOf(s, i) ==
  {h.result : h \in {x \in HealthResults : x.serial = s /\ x.interval = i}}

\* what the code reads of one round of waitForBootComplete
BootRound(b) == [sig |-> BootOk(b), done |-> BootRoundDone(b)]
BootRounds == {BootRound(b) : b \in BootProbes}

NoLast ==
  [hook |-> "none", status |-> "none", err |-> NoError, via |-> "none",
   attempts |-> 0, failed |-> <<>>]
NoUnit == [op |-> "none"]
NoHist == [launched |-> 0, adopted |-> "none", recovery |-> <<>>]

Init ==
  /\ cfg \in Configs
  /\ androidSerial = Undefined
  /\ iosUdid = Undefined
  /\ started = FALSE
  /\ hook = "idle"
  /\ pc = "idle"
  /\ attempt = 0
  /\ forceColdBoot = FALSE
  /\ serial = Undefined
  /\ remaining = 0
  /\ hcI = 0
  /\ err = NoError
  /\ last = NoLast
  /\ cmds = NoCmds
  /\ sleeps = <<>>
  /\ bootArgs = FALSE
  /\ stopLog = <<>>
  /\ whLog = NoWh
  /\ sigSeen = {}
  /\ seenHealthy = {}
  /\ scen = "off"
  /\ hist = NoHist
  /\ unit = NoUnit

(***************************************************************************)
(* Control                                                                 *)
(***************************************************************************)
ClearLocals ==
  /\ forceColdBoot' = FALSE
  /\ serial' = Undefined
  /\ remaining' = 0
  /\ hcI' = 0

\* the hook returns (status "returned") or rejects (status "raised")
Finish(status, e, via) ==
  /\ hook' = "idle"
  /\ pc' = "idle"
  /\ last' = [hook |-> hook, status |-> status, err |-> e, via |-> via,
              attempts |-> attempt + 1, failed |-> <<>>]
  /\ attempt' = 0
  /\ err' = NoError
  /\ ClearLocals

\* startOrHealAndroid throws into the catch of ensureAndroidReadyWithRetry
Caught(kind) ==
  /\ pc' = "catch"
  /\ err' = Error(kind, attempt)
  /\ scen' = "off"
  /\ ClearLocals
  /\ UNCHANGED <<hook, last, attempt>>

\* the observations made of one attempt are dropped when the next begins
FreshObservations ==
  /\ cmds' = NoCmds
  /\ stopLog' = <<>>
  /\ whLog' = NoWh
  /\ sigSeen' = {}
  /\ bootArgs' = FALSE

\* a hook starts
Begin(h) ==
  /\ hook = "idle"
  /\ hook' = h
  /\ attempt' = 0
  /\ err' = NoError
  /\ last' = NoLast
  /\ sleeps' = <<>>
  /\ FreshObservations
  /\ ClearLocals
  /\ hist' = NoHist
  /\ UNCHANGED <<cfg, androidSerial, iosUdid, started, seenHealthy, unit>>

(***************************************************************************)
(* Android: ensureAndroidReadyWithRetry and what it calls                  *)
(***************************************************************************)
\* for (let attempt = 0; attempt <= retries; attempt++)
\* (the retry counts of Configs are naturals, so attempt 0 always runs)
EnsureAndroidReadyWithRetry(h) ==
  /\ Begin(h)
  /\ pc' = "startOrHeal"
  /\ scen' = "begin"

\* onPrepare, android branch
OnPrepareAndroid ==
  /\ cfg.platform = "android"
  /\ EnsureAndroidReadyWithRetry("onPrepare")

\* beforeSession, android branch
BeforeSessionAndroid ==
  /\ cfg.platform = "android"
  /\ EnsureAndroidReadyWithRetry("beforeSession")

\* beforeSession does nothing on ios
BeforeSessionIos ==
  /\ cfg.platform = "ios"
  /\ hook = "idle"
  /\ last' = [hook |-> "beforeSession", status |-> "returned", err |-> NoError,
              via |-> "noop", attempts |-> 0, failed |-> <<>>]
  /\ sleeps' = <<>>
  /\ scen' = "off"
  /\ FreshObservations
  /\ hist' = NoHist
  /\ UNCHANGED <<cfg, androidSerial, iosUdid, started, hook, pc, attempt,
                 forceColdBoot, serial, remaining, hcI, err, seenHealthy, unit>>

\* startOrHealAndroid up to the outcome of its "adb devices"
StartOrHealList ==
  /\ pc = "startOrHeal"
  /\ IF NoAvdName(cfg)
       THEN /\ Finish("returned", NoError, "skipped")
            /\ scen' = "off"
            /\ UNCHANGED <<androidSerial, cmds>>
       ELSE \E l \in ListResults :
              /\ cmds' = Bump(cmds, "list")
              /\ IF l.threw
                   THEN Caught("listFailed") /\ UNCHANGED androidSerial
                   ELSE IF l.found # Undefined
                     THEN /\ androidSerial' = l.found
                          /\ pc' = "isHealthy"
                          /\ scen' = "off"
                          /\ UNCHANGED <<hook, last, attempt, err,
                                         forceColdBoot, serial, remaining, hcI>>
                     ELSE /\ pc' = "spawn"
                          /\ forceColdBoot' = FALSE
                          /\ scen' = IF scen = "begin" /\ attempt = 0
                                       THEN "listedNone" ELSE "off"
                          /\ UNCHANGED <<androidSerial, hook, last, attempt,
                                         err, serial, remaining, hcI>>
  /\ UNCHANGED <<cfg, iosUdid, started, sleeps, bootArgs, stopLog, whLog,
                 sigSeen, seenHealthy, unit, hist>>

\* startOrHealAndroid: isAndroidHealthy(running) and the branch on its result
StartOrHealCheck ==
  /\ pc = "isHealthy"
  /\ \E r \in HealthResultsOf(androidSerial, HealthInterval(cfg)) :
       /\ cmds' = BumpAll(cmds, HealthCounters(r.cmds))
       /\ sigSeen' = IF r.sig THEN sigSeen \cup {androidSerial} ELSE sigSeen
       /\ seenHealthy' = IF r.ok THEN seenHealthy \cup {androidSerial}
                         ELSE seenHealthy
       /\ IF r.ok
            THEN /\ started' = StartedWhenHealthy(started)
                 /\ Finish("returned", NoError, "healthy")
            ELSE /\ pc' = "stop"
                 /\ UNCHANGED <<started, hook, last, attempt, err,
                                forceColdBoot, serial, remaining, hcI>>
  /\ UNCHANGED <<cfg, androidSerial, iosUdid, sleeps, bootArgs, stopLog,
                 whLog, scen, unit, hist>>

\* startOrHealAndroid: await this.stopAndroid().catch(() => {})
StartOrHealStop ==
  /\ pc = "stop"
  /\ \E kill \in Plain, killServer \in Plain :
       LET r == StopAndroid(androidSerial, kill, killServer)
       IN  /\ cmds' = BumpAll(cmds, StopCounters(r.cmds))
           /\ stopLog' = r.cmds
  /\ pc' = "spawn"
  /\ forceColdBoot' = ColdRestart(cfg)
  /\ hist' = [hist EXCEPT !.launched = 0]
  /\ UNCHANGED <<cfg, androidSerial, iosUdid, started, hook, attempt, serial,
                 remaining, hcI, err, last, sleeps, bootArgs, whLog, sigSeen,
                 seenHealthy, scen, unit>>

\* the end-to-end scenario: the boot-completion signals turn true at the
\* second or third round of waitForBootComplete
ScenAfterRound(sc, done) ==
  IF sc = "found" /\ ~done THEN "round1"
  ELSE IF sc = "round1" /\ ~done THEN "round2"
  ELSE IF sc \in {"round1", "round2"} /\ done THEN "booted"
  ELSE "off"

\* startAndroid up to the launch of the emulator process
BootSpawn ==
  /\ pc = "spawn"
  /\ \E startServer \in Plain :
       cmds' = BumpAll(cmds, <<"startServer", "boot">>)
  /\ bootArgs' = (forceColdBoot \/ cfg.coldBoot)
  /\ remaining' = AndroidBootTimeout(cfg)
  /\ pc' = "poll"
  /\ hist' = [hist EXCEPT !.launched = Min(@ + 1, CountCap)]
  /\ UNCHANGED <<cfg, androidSerial, iosUdid, started, hook, attempt,
                 forceColdBoot, serial, hcI, err, last, sleeps, stopLog,
                 whLog, sigSeen, seenHealthy, scen, unit>>

\* whose listing entry the poll of startAndroid can take for the device it
\* booted.  "adb emu kill" returns before the emulator has left the
\* listing, and adbDevices() gives serials only: an entry with the serial
\* that stopAndroid was called for is the one of the instance that is
\* shutting down, or the one of the new instance on the same port
Adoptable(found, stopped) ==
  IF stopped # <<>> /\ found = stopped[1][2] THEN {"old", "new"} ELSE {"new"}

\* startAndroid: one round of "wait for device to appear in adb"
BootPoll ==
  /\ pc = "poll"
  /\ IF BeforeDeadline(remaining)
       THEN \E l \in ListResults :
              /\ cmds' = Bump(cmds, "list")
              /\ IF l.threw
                   THEN Caught("listFailed") /\ UNCHANGED <<androidSerial, hist>>
                   ELSE IF l.found # Undefined
                     THEN /\ androidSerial' = l.found
                          /\ serial' = l.found
                          /\ pc' = "waitForDevice"
                          /\ scen' = IF scen = "listedNone" THEN "found"
                                     ELSE "off"
                          /\ \E whose \in Adoptable(l.found, stopLog) :
                               hist' = [hist EXCEPT !.adopted = whose]
                          /\ UNCHANGED <<remaining, hook, last, attempt, err,
                                         forceColdBoot, hcI>>
                     ELSE /\ remaining' = remaining - PollSleepMs
                          /\ scen' = "off"
                          /\ UNCHANGED <<androidSerial, serial, pc, hook, last,
                                         attempt, err, forceColdBoot, hcI,
                                         hist>>
       ELSE /\ Caught("appearTimeout")
            /\ UNCHANGED <<androidSerial, cmds, hist>>
  /\ UNCHANGED <<cfg, iosUdid, started, sleeps, bootArgs, stopLog, whLog,
                 sigSeen, seenHealthy, unit>>

\* startAndroid: adb wait-for-device, then waitForBootComplete's deadline
BootWaitForDevice ==
  /\ pc = "waitForDevice"
  /\ cmds' = Bump(cmds, "other")
  /\ \E o \in Plain, elapsed \in WaitElapsed :
       IF o.threw
         THEN Caught("commandFailed")
         ELSE /\ remaining' = BootCompleteBudget(remaining - elapsed)
              /\ pc' = "bootComplete"
              /\ UNCHANGED <<hook, last, attempt, err, forceColdBoot, serial,
                             hcI, scen>>
  /\ UNCHANGED <<cfg, androidSerial, iosUdid, started, sleeps, bootArgs,
                 stopLog, whLog, sigSeen, seenHealthy, unit, hist>>

\* waitForBootComplete: one round of the loop, or the last-chance check
BootCompletePoll ==
  /\ pc = "bootComplete"
  /\ IF BeforeDeadline(remaining)
       THEN \E b \in BootRounds :
              /\ cmds' = BumpAll(cmds, <<"probe", "probe", "probe", "probe">>)
              /\ sigSeen' = IF b.sig THEN sigSeen \cup {serial} ELSE sigSeen
              /\ scen' = ScenAfterRound(scen, b.done)
              /\ IF b.done
                   THEN /\ pc' = "waitHealthy"
                        /\ remaining' = 0
                   ELSE /\ remaining' = remaining - PollSleepMs
                        /\ UNCHANGED pc
              /\ UNCHANGED <<hook, last, attempt, err, forceColdBoot, serial,
                             hcI>>
       ELSE \E o \in Outcomes(BootStdouts) :
              /\ cmds' = Bump(cmds, "probe")
              /\ IF LastChanceOk(o)
                   THEN /\ sigSeen' = sigSeen \cup {serial}
                        /\ pc' = "waitHealthy"
                        /\ remaining' = 0
                        /\ scen' = "off"
                        /\ UNCHANGED <<hook, last, attempt, err, forceColdBoot,
                                       serial, hcI>>
                   ELSE /\ Caught("bootTimeout")
                        /\ UNCHANGED sigSeen
  /\ UNCHANGED <<cfg, androidSerial, iosUdid, started, sleeps, bootArgs,
                 stopLog, whLog, seenHealthy, unit, hist>>

\* waitForAndroidHealthy: one round of the loop, or "return false"
WaitHealthyCheck ==
  /\ pc = "waitHealthy"
  /\ IF HealthLoopRuns(hcI, HealthRetries(cfg))
       THEN \E r \in HealthResultsOf(serial, HealthInterval(cfg)) :
              /\ cmds' = BumpAll(cmds, HealthCounters(r.cmds))
              /\ sigSeen' = IF r.sig THEN sigSeen \cup {serial} ELSE sigSeen
              /\ seenHealthy' = IF r.ok THEN seenHealthy \cup {serial}
                                ELSE seenHealthy
              /\ IF r.ok
                   THEN /\ whLog' = [whLog EXCEPT !.checks = @ + 1,
                                                  !.ret = "true"]
                        /\ pc' = "unlock"
                        /\ scen' = IF scen = "booted" THEN "healthy" ELSE "off"
                        /\ UNCHANGED hcI
                   ELSE /\ whLog' = [whLog EXCEPT
                                       !.checks = @ + 1,
                                       !.slept = Append(@, HealthInterval(cfg))]
                        /\ hcI' = hcI + 1
                        /\ scen' = "off"
                        /\ UNCHANGED pc
              /\ UNCHANGED <<hook, last, attempt, err, forceColdBoot, serial,
                             remaining>>
       ELSE /\ whLog' = [whLog EXCEPT !.ret = "false"]
            /\ Caught("healthcheckFailed")
            /\ UNCHANGED <<cmds, sigSeen, seenHealthy>>
  /\ UNCHANGED <<cfg, androidSerial, iosUdid, started, sleeps, bootArgs,
                 stopLog, unit, hist>>

\* startAndroid: the unlock key event (failure ignored), then started = true
BootUnlock ==
  /\ pc = "unlock"
  /\ \E o \in Plain : cmds' = Bump(cmds, "other")
  /\ started' = StartedWhenBooted(started)
  /\ Finish("returned", NoError, "booted")
  /\ UNCHANGED <<cfg, androidSerial, iosUdid, sleeps, bootArgs, stopLog, whLog,
                 sigSeen, seenHealthy, scen, unit, hist>>

\* ensureAndroidReadyWithRetry: the catch block
EnsureCatch ==
  /\ pc = "catch"
  /\ \E startServer \in Plain :
       IF RetryAgain(attempt, EmulatorRetries(cfg))
         THEN /\ sleeps' = Append(sleeps, Backoff(attempt))
              /\ attempt' = attempt + 1
              /\ pc' = "startOrHeal"
              /\ err' = NoError
              /\ FreshObservations
              /\ hist' = [hist EXCEPT !.adopted = "none",
                                      !.recovery = @ \o CatchBlock(TRUE)]
              /\ UNCHANGED <<hook, last, forceColdBoot, serial, remaining, hcI>>
         ELSE /\ Finish("raised", TryAdbRestart(startServer, err), "error")
              /\ cmds' = Bump(cmds, "startServer")
              /\ hist' = [hist EXCEPT !.recovery = @ \o CatchBlock(FALSE)]
              /\ UNCHANGED <<sleeps, bootArgs, stopLog, whLog, sigSeen>>
  /\ UNCHANGED <<cfg, androidSerial, iosUdid, started, seenHealthy, scen, unit>>

(***************************************************************************)
(* iOS                                                                     *)
(***************************************************************************)
Udids == {"UDID-A", "UDID-B"}

\* xcrun simctl list devices | grep "<name>" | grep -v unavailable | tail -n 1
FindStdouts ==
  {<<"iPhone 15 (", u, ") (Shutdown)", "\n">> : u \in Udids} \cup {<<>>}

\* stdout.match(/[0-9A-F-]{36}/i)?.[0]
RECURSIVE MatchUdid(_)
MatchUdid(s) ==
  IF s = <<>> THEN Undefined
  ELSE IF Head(s) \in Udids THEN Head(s) ELSE MatchUdid(Tail(s))

\* findUdidByName(name)
FindUdidByName(o) == IF o.threw THEN Undefined ELSE MatchUdid(o.stdout)

\* xcrun simctl list devices booted | grep <udid>
BootedStdouts(u) == {<<"iPhone 15 (", u, ") (Booted)", "\n">>}

\* isBooted(udid)
IsBooted(u, o) == IF o.threw THEN FALSE ELSE Includes(o.stdout, u)

\* stopIOS with no catch on the shutdown command
StopIOSNoCatch(u, shutdown) ==
  IF u = Undefined
    THEN [cmds |-> <<>>, threw |-> FALSE]
    ELSE [cmds |-> << <<"shutdown", u>> >>, threw |-> shutdown.threw]
\* stopIOS(): the commands issued and whether it raised
StopIOS(u, shutdown) ==
  IF u = Undefined
    THEN [cmds |-> <<>>, threw |-> FALSE]
    ELSE [cmds |-> << <<"shutdown", u>> >>, threw |-> FALSE]

\* this.opts.ios?.headless ?? envFlag(...) ?? false
IosHeadless(c) == Nullish(c.headless, FALSE)
\* a host check that lets every host through
IsDarwinAnyHost(c) == TRUE
\* os.platform() === 'darwin'
IsDarwin(c) == c.host = "darwin"

\* onPrepare, ios branch
OnPrepareIos ==
  /\ cfg.platform = "ios"
  /\ Begin("onPrepare")
  /\ pc' = "startIOS"
  /\ scen' = "off"

\* startIOS up to the resolution of the target UDID
IosResolve ==
  /\ pc = "startIOS"
  /\ IF ~IsDarwin(cfg)
       THEN /\ Finish("returned", NoError, "skipped")
            /\ UNCHANGED cmds
       ELSE IF cfg.udid # {}
         THEN /\ serial' = Nullish(cfg.udid, Undefined)
              /\ pc' = "isBooted"
              /\ UNCHANGED <<hook, last, attempt, err, forceColdBoot,
                             remaining, hcI, cmds>>
         ELSE \E o \in Outcomes(FindStdouts) :
                /\ cmds' = Bump(cmds, "list")
                /\ IF FindUdidByName(o) = Undefined
                     THEN Finish("returned", NoError, "notFound")
                     ELSE /\ serial' = FindUdidByName(o)
                          /\ pc' = "isBooted"
                          /\ UNCHANGED <<hook, last, attempt, err,
                                         forceColdBoot, remaining, hcI>>
  /\ UNCHANGED <<cfg, androidSerial, iosUdid, started, sleeps, bootArgs,
                 stopLog, whLog, sigSeen, seenHealthy, scen, unit, hist>>

\* startIOS: the "already booted" check
IosAlreadyBooted ==
  /\ pc = "isBooted"
  /\ cmds' = Bump(cmds, "list")
  /\ \E o \in Outcomes(BootedStdouts(serial)) :
       IF IsBooted(serial, o)
         THEN /\ iosUdid' = serial
              /\ UNCHANGED started
              /\ seenHealthy' = seenHealthy \cup {serial}
              /\ sigSeen' = sigSeen \cup {serial}
              /\ Finish("returned", NoError, "alreadyBooted")
         ELSE /\ pc' = "iosBoot"
              /\ UNCHANGED <<iosUdid, started, seenHealthy, sigSeen, hook,
                             last, attempt, err, forceColdBoot, serial,
                             remaining, hcI>>
  /\ UNCHANGED <<cfg, androidSerial, sleeps, bootArgs, stopLog, whLog, scen,
                 unit, hist>>

\* startIOS: simctl boot, then "open -a Simulator" unless headless
IosBoot ==
  /\ pc = "iosBoot"
  /\ \E boot \in Plain, open \in Plain :
       IF boot.threw
         THEN /\ cmds' = Bump(cmds, "boot")
              /\ Finish("raised", Error("commandFailed", 0), "error")
         ELSE /\ cmds' = IF IosHeadless(cfg)
                           THEN Bump(cmds, "boot")
                           ELSE BumpAll(cmds, <<"boot", "other">>)
              /\ remaining' = IosBootTimeout(cfg)
              /\ pc' = "iosWait"
              /\ UNCHANGED <<hook, last, attempt, err, forceColdBoot, serial,
                             hcI>>
  /\ UNCHANGED <<cfg, androidSerial, iosUdid, started, sleeps, bootArgs,
                 stopLog, whLog, sigSeen, seenHealthy, scen, unit, hist>>

\* startIOS: one round of "wait until booted"
IosWait ==
  /\ pc = "iosWait"
  /\ IF BeforeDeadline(remaining)
       THEN /\ cmds' = Bump(cmds, "list")
            /\ \E o \in Outcomes(BootedStdouts(serial)) :
                 IF IsBooted(serial, o)
                   THEN /\ pc' = "iosFinal"
                        /\ seenHealthy' = seenHealthy \cup {serial}
                        /\ sigSeen' = sigSeen \cup {serial}
                        /\ UNCHANGED remaining
                   ELSE /\ remaining' = remaining - IosPollSleepMs
                        /\ UNCHANGED <<pc, seenHealthy, sigSeen>>
       ELSE /\ pc' = "iosFinal"
            /\ UNCHANGED <<cmds, remaining, seenHealthy, sigSeen>>
  /\ UNCHANGED <<cfg, androidSerial, iosUdid, started, hook, attempt,
                 forceColdBoot, serial, hcI, err, last, sleeps, bootArgs,
                 stopLog, whLog, scen, unit, hist>>

\* startIOS: the check after the loop, then iosUdid and started are set
IosFinal ==
  /\ pc = "iosFinal"
  /\ cmds' = Bump(cmds, "list")
  /\ \E o \in Outcomes(BootedStdouts(serial)) :
       IF IsBooted(serial, o)
         THEN /\ iosUdid' = serial
              /\ started' = TRUE
              /\ seenHealthy' = seenHealthy \cup {serial}
              /\ sigSeen' = sigSeen \cup {serial}
              /\ Finish("returned", NoError, "booted")
         ELSE /\ Finish("raised", Error("iosBootTimeout", 0), "error")
              /\ UNCHANGED <<iosUdid, started, seenHealthy, sigSeen>>
  /\ UNCHANGED <<cfg, androidSerial, sleeps, bootArgs, stopLog, whLog, scen,
                 unit, hist>>

(***************************************************************************)
(* onComplete                                                              *)
(***************************************************************************)
NothingRun == [cmds |-> <<>>, threw |-> FALSE]

\* what onComplete runs: the stop method's result, or nothing
OnCompleteStop(kill, killServer, shutdown) ==
  IF ~started THEN NothingRun
  ELSE IF cfg.platform = "android"
    THEN IF AndroidKillOnComplete(cfg)
           THEN StopAndroid(androidSerial, kill, killServer)
           ELSE NothingRun
    ELSE IF IosKillOnComplete(cfg)
           THEN StopIOS(iosUdid, shutdown)
           ELSE NothingRun

\* which outcome of the environment a stop command got
StopThrew(cmd, kill, killServer, shutdown) ==
  IF cmd[1] = "emu kill" THEN kill.threw
  ELSE IF cmd[1] = "kill-server" THEN killServer.threw ELSE shutdown.threw

OnComplete ==
  /\ hook = "idle"
  /\ \E kill \in Plain, killServer \in Plain, shutdown \in Plain :
       LET r == OnCompleteStop(kill, killServer, shutdown)
       IN  /\ cmds' = BumpAll(NoCmds, StopCounters(r.cmds))
           /\ stopLog' = r.cmds
           /\ last' = [hook |-> "onComplete",
                       status |-> IF r.threw THEN "raised" ELSE "returned",
                       err |-> IF r.threw THEN Error("commandFailed", 0)
                               ELSE NoError,
                       via |-> IF started THEN "started" ELSE "notStarted",
                       attempts |-> 0,
                       failed |-> [i \in 1..Len(r.cmds) |->
                                     StopThrew(r.cmds[i], kill, killServer,
                                               shutdown)]]
  /\ sleeps' = <<>>
  /\ whLog' = NoWh
  /\ sigSeen' = {}
  /\ bootArgs' = FALSE
  /\ scen' = "off"
  /\ hist' = NoHist
  /\ UNCHANGED <<cfg, androidSerial, iosUdid, started, hook, pc, attempt,
                 forceColdBoot, serial, remaining, hcI, err, seenHealthy, unit>>

(***************************************************************************)
(* The service under its hooks                                             *)
(***************************************************************************)
Next ==
  \/ OnPrepareAndroid
  \/ BeforeSessionAndroid
  \/ BeforeSessionIos
  \/ StartOrHealList
  \/ StartOrHealCheck
  \/ StartOrHealStop
  \/ BootSpawn
  \/ BootPoll
  \/ BootWaitForDevice
  \/ BootCompletePoll
  \/ WaitHealthyCheck
  \/ BootUnlock
  \/ EnsureCatch
  \/ OnPrepareIos
  \/ IosResolve
  \/ IosAlreadyBooted
  \/ IosBoot
  \/ IosWait
  \/ IosFinal
  \/ OnComplete

Spec == Init /\ [][Next]_vars

(***************************************************************************)
(* The private methods isAndroidHealthy and stopAndroid run on their own:  *)
(* the answers of the environment are drawn first, then the method runs.   *)
(***************************************************************************)
HealthInputs ==
  [op : {"isAndroidHealthy?"}, serial : EmulatorSerials, probes : HealthProbes]
StopInputs ==
  [op : {"stopAndroid?"}, kill : Plain, killServer : Plain]

UnitInit ==
  /\ cfg = BaseConfig
  /\ \/ unit \in HealthInputs /\ androidSerial = Undefined
     \/ unit \in StopInputs /\ androidSerial \in {Undefined} \cup EmulatorSerials
  /\ iosUdid = Undefined
  /\ started = FALSE
  /\ hook = "idle"
  /\ pc = "idle"
  /\ attempt = 0
  /\ forceColdBoot = FALSE
  /\ serial = Undefined
  /\ remaining = 0
  /\ hcI = 0
  /\ err = NoError
  /\ last = NoLast
  /\ cmds = NoCmds
  /\ sleeps = <<>>
  /\ bootArgs = FALSE
  /\ stopLog = <<>>
  /\ whLog = NoWh
  /\ sigSeen = {}
  /\ seenHealthy = {}
  /\ scen = "off"
  /\ hist = NoHist

UnitIsAndroidHealthy ==
  /\ unit.op = "isAndroidHealthy?"
  /\ unit' = [op |-> "isAndroidHealthy", serial |-> unit.serial,
              probes |-> unit.probes,
              result |-> IsAndroidHealthy(unit.serial, unit.probes,
                                          HealthInterval(cfg))]
  /\ UNCHANGED <<cfg, androidSerial, iosUdid, started, hook, pc, attempt,
                 forceColdBoot, serial, remaining, hcI, err, last, cmds, sleeps,
                 bootArgs, stopLog, whLog, sigSeen, seenHealthy, scen, hist>>

UnitStopAndroid ==
  /\ unit.op = "stopAndroid?"
  /\ unit' = [op |-> "stopAndroid", kill |-> unit.kill,
              killServer |-> unit.killServer,
              result |-> StopAndroid(androidSerial, unit.kill, unit.killServer)]
  /\ UNCHANGED <<cfg, androidSerial, iosUdid, started, hook, pc, attempt,
                 forceColdBoot, serial, remaining, hcI, err, last, cmds, sleeps,
                 bootArgs, stopLog, whLog, sigSeen, seenHealthy, scen, hist>>

UnitNext == UnitIsAndroidHealthy \/ UnitStopAndroid

SpecUnit == UnitInit /\ [][UnitNext]_vars

(***************************************************************************)
(* PageElement (src/runtime/mobile-actions.ts): the android, ios and        *)
(* universal lists of selectors of one element.  A selector is a sequence   *)
(* of tokens, as a stdout is; a list that is null is {}, a list that is an  *)
(* array a is {a}.                                                          *)
(***************************************************************************)
\* longest list of selectors an element is grown to
MaxBucket == 2

\* a LocatorInput: a string (value), or an object { using, value }
StringInput(v) == [isString |-> TRUE, using |-> <<>>, value |-> v]
ObjectInput(u, v) == [isString |-> FALSE, using |-> u, value |-> v]

\* String.prototype.toLowerCase, token by token
LowerToken(t) ==
  IF t = "Accessibility ID" THEN "accessibility id"
  ELSE IF t = "ON" THEN "on"
  ELSE IF t = "Yes" THEN "yes"
  ELSE IF t = "TRUE" THEN "true"
  ELSE t
ToLowerCase(s) == [i \in 1..Len(s) |-> LowerToken(s[i])]

\* toAccId(v): `~${v}`
ToAccId(v) == <<"~">> \o v
\* toXPath(x)
ToXPath(x) == x

\* normalizeOne that stores the value as it was given
NormalizeOneAsGiven(loc) == loc.value
\* normalizeOne(loc)
NormalizeOne(loc) ==
  IF loc.isString THEN Trim(loc.value)
  ELSE LET using == ToLowerCase(Trim(loc.using))
       IN  IF using = <<"xpath">> THEN ToXPath(loc.value)
           ELSE IF using = <<"accessibility id">> THEN ToAccId(loc.value)
           ELSE loc.value

\* Array.prototype.filter(Boolean) on selectors: '' is dropped
RECURSIVE FilterBoolean(_)
FilterBoolean(a) ==
  IF a = <<>> THEN <<>>
  ELSE IF Head(a) = <<>> THEN FilterBoolean(Tail(a))
  ELSE <<Head(a)>> \o FilterBoolean(Tail(a))

\* a constructor / withFallbacks argument for one list: null or undefined,
\* one LocatorInput, or an array of them
NoInput == [given |-> FALSE, isArray |-> FALSE, items |-> <<>>]
One(loc) == [given |-> TRUE, isArray |-> FALSE, items |-> <<loc>>]
Many(locs) == [given |-> TRUE, isArray |-> TRUE, items |-> locs]

\* normalizeList(val)
NormalizeList(val) ==
  IF ~val.given THEN {}
  ELSE LET mapped ==
             FilterBoolean([i \in 1..Len(val.items) |->
                              NormalizeOne(val.items[i])])
       IN  IF Len(mapped) > 0 THEN {mapped} ELSE {}

\* the truthiness of an argument: null, undefined and '' are falsy
Truthy(val) ==
  /\ val.given
  /\ val.isArray \/ ~val.items[1].isString \/ val.items[1].value # <<>>

PaddedA == StringInput(<<" ", "~a", "\t">>)
Blank == StringInput(<<" ", " ">>)
AccIdB == ObjectInput(<<"Accessibility ID", " ">>, <<"b">>)
EmptyId == ObjectInput(<<"id">>, <<>>)

ListInputs ==
  {NoInput, One(PaddedA), One(Blank), One(AccIdB), Many(<<>>),
   Many(<<Blank, Blank>>), Many(<<AccIdB, EmptyId>>),
   Many(<<AccIdB, EmptyId, PaddedA>>)}

ElementOpts == [android : ListInputs, ios : ListInputs, universal : ListInputs]

\* new PageElement(opts)
NewPageElement(opts) ==
  [android |-> NormalizeList(opts.android),
   ios |-> NormalizeList(opts.ios),
   universal |-> NormalizeList(opts.universal)]

\* the array of a list, [] for null
ArrayOf(list) == Nullish(list, <<>>)

\* getPlatform(): 'android' | 'ios' | null
Platforms == {"android", "ios", "null"}

\* selectors() with the universal list in front
SelectorsUniversalFirst(el, plat) ==
  ArrayOf(el.universal)
    \o (IF plat = "android" THEN ArrayOf(el.android) ELSE <<>>)
    \o (IF plat = "ios" THEN ArrayOf(el.ios) ELSE <<>>)
\* selectors()
Selectors(el, plat) ==
  (IF plat = "android" THEN ArrayOf(el.android) ELSE <<>>)
    \o (IF plat = "ios" THEN ArrayOf(el.ios) ELSE <<>>)
    \o ArrayOf(el.universal)

\* list?.[0]: {} for null, undefined
First(list) == IF ArrayOf(list) = <<>> THEN {} ELSE {ArrayOf(list)[1]}

\* the fallback with the ios list asked first
HardFallbackIosFirst(el) ==
  IF First(el.ios) # {} THEN First(el.ios)
  ELSE IF First(el.android) # {} THEN First(el.android)
  ELSE First(el.universal)
\* this.android?.[0] ?? this.ios?.[0] ?? this.universal?.[0] ?? null
HardFallback(el) ==
  IF First(el.android) # {} THEN First(el.android)
  ELSE IF First(el.ios) # {} THEN First(el.ios)
  ELSE First(el.universal)

\* toSelector() that asks the fallback only
ToSelectorFallbackOnly(el, plat) ==
  IF plat = "null" THEN HardFallback(el)
  ELSE IF Selectors(el, plat) # <<>> THEN {Selectors(el, plat)[1]}
  ELSE HardFallback(el)
\* toSelector(): {} is null
ToSelector(el, plat) ==
  IF Selectors(el, plat) # <<>> THEN {Selectors(el, plat)[1]}
  ELSE HardFallback(el)

\* what withFallbacks reads of one argument: its truthiness and its
\* normalizeList
FallbackArg(val) == [truthy |-> Truthy(val), norm |-> NormalizeList(val)]
FallbackArgs == {FallbackArg(v) : v \in ListInputs}
FallbackOpts ==
  [android : FallbackArgs, ios : FallbackArgs, universal : FallbackArgs]

\* one statement of withFallbacks:
\*   if (arg) (this.list ||= []).push(...normalizeList(arg)!)
\* the spread of null throws after "||=" has made the list an array
PushFallbacks(list, arg) ==
  IF ~arg.truthy THEN [list |-> list, threw |-> FALSE]
  ELSE IF arg.norm = {} THEN [list |-> {ArrayOf(list)}, threw |-> TRUE]
  ELSE [list |-> {ArrayOf(list) \o ArrayOf(arg.norm)}, threw |-> FALSE]

\* withFallbacks(opts): the element it leaves and whether it threw
WithFallbacks(el, opts) ==
  LET a == PushFallbacks(el.android, opts.android)
      i == PushFallbacks(el.ios, opts.ios)
      u == PushFallbacks(el.universal, opts.universal)
  IN  IF a.threw THEN [el |-> [el EXCEPT !.android = a.list], threw |-> TRUE]
      ELSE IF i.threw
        THEN [el |-> [el EXCEPT !.android = a.list, !.ios = i.list],
              threw |-> TRUE]
      ELSE [el |-> [android |-> a.list, ios |-> i.list, universal |-> u.list],
            threw |-> u.threw]

\* the element is built first, then grown and resolved in any order
ElementInit ==
  /\ unit \in {[op |-> "new", el |-> NewPageElement(o), plat |-> "null",
                threw |-> FALSE, list |-> <<>>, best |-> {}] :
                o \in ElementOpts}
  /\ cfg = BaseConfig
  /\ androidSerial = Undefined
  /\ iosUdid = Undefined
  /\ started = FALSE
  /\ hook = "idle"
  /\ pc = "idle"
  /\ attempt = 0
  /\ forceColdBoot = FALSE
  /\ serial = Undefined
  /\ remaining = 0
  /\ hcI = 0
  /\ err = NoError
  /\ last = NoLast
  /\ cmds = NoCmds
  /\ sleeps = <<>>
  /\ bootArgs = FALSE
  /\ stopLog = <<>>
  /\ whLog = NoWh
  /\ sigSeen = {}
  /\ seenHealthy = {}
  /\ scen = "off"
  /\ hist = NoHist

ElementFrame ==
  UNCHANGED <<cfg, androidSerial, iosUdid, started, hook, pc, attempt,
              forceColdBoot, serial, remaining, hcI, err, last, cmds, sleeps,
              bootArgs, stopLog, whLog, sigSeen, seenHealthy, scen, hist>>

Fits(el) ==
  /\ Len(ArrayOf(el.android)) <= MaxBucket
  /\ Len(ArrayOf(el.ios)) <= MaxBucket
  /\ Len(ArrayOf(el.universal)) <= MaxBucket

ElementWithFallbacks ==
  /\ \E o \in FallbackOpts :
       LET r == WithFallbacks(unit.el, o)
       IN  /\ Fits(r.el)
           /\ unit' = [unit EXCEPT !.op = "withFallbacks", !.el = r.el,
                                   !.threw = r.threw, !.list = <<>>,
                                   !.best = {}]
  /\ ElementFrame

ElementSelectors ==
  /\ \E plat \in Platforms :
       unit' = [unit EXCEPT !.op = "selectors", !.plat = plat,
                            !.threw = FALSE,
                            !.list = Selectors(unit.el, plat), !.best = {}]
  /\ ElementFrame

ElementToSelector ==
  /\ \E plat \in Platforms :
       unit' = [unit EXCEPT !.op = "toSelector", !.plat = plat,
                            !.threw = FALSE,
                            !.list = Selectors(unit.el, plat),
                            !.best = ToSelector(unit.el, plat)]
  /\ ElementFrame

ElementNext == ElementWithFallbacks \/ ElementSelectors \/ ElementToSelector

SpecElement == ElementInit /\ [][ElementNext]_vars

(***************************************************************************)
(* The factories of PageElement and the helpers of src/runtime and of the   *)
(* reporting plugin, each called on its own: the arguments and the answers  *)
(* of the driver are drawn first, then the function runs.  A text is a      *)
(* sequence of characters; the fixed parts of a selector are one token      *)
(* each.                                                                    *)
(***************************************************************************)
\* longest text given to byTextExact / byTextContains
MaxText == 3
\* longest id given to byResourceId
MaxId == 2

DQ == "\""
BS == "\\"

RECURSIVE Texts(_, _)
Texts(alphabet, n) ==
  IF n = 0 THEN {<<>>}
  ELSE LET shorter == Texts(alphabet, n - 1)
       IN  shorter \cup {Append(t, c) : t \in shorter, c \in alphabet}

\* String.prototype.replace(/c/g, by) for one character c
RECURSIVE ReplaceAll(_, _, _)
ReplaceAll(s, c, by) ==
  IF s = <<>> THEN <<>>
  ELSE (IF Head(s) = c THEN by ELSE <<Head(s)>>) \o ReplaceAll(Tail(s), c, by)

\* quoteJava that escapes the double quotes only
QuoteJavaQuotesOnly(s) == <<DQ>> \o ReplaceAll(s, DQ, <<BS, DQ>>) \o <<DQ>>
\* quoteJava(s)
QuoteJava(s) ==
  <<DQ>> \o ReplaceAll(ReplaceAll(s, BS, <<BS, BS>>), DQ, <<BS, DQ>>) \o <<DQ>>
\* quoteNS(s)
QuoteNS(s) == <<DQ>> \o ReplaceAll(s, DQ, <<BS, DQ>>) \o <<DQ>>

\* the characters of /[.*+?^${}()|[\]\\]/
RegexMeta ==
  {".", "*", "+", "?", "^", "$", "{", "}", "(", ")", "|", "[", "]", BS}
\* escapeRegex that escapes nothing
EscapeRegexNothing(s) == s
\* escapeRegex(s): '\\$&' for every metacharacter
RECURSIVE EscapeRegex(_)
EscapeRegex(s) ==
  IF s = <<>> THEN <<>>
  ELSE (IF Head(s) \in RegexMeta THEN <<BS, Head(s)>> ELSE <<Head(s)>>)
         \o EscapeRegex(Tail(s))

\* toAndroidUIA(expr): `android=${expr}`
ToAndroidUIA(expr) == <<"android=">> \o expr
\* toIOSPredicate(pred): `-ios predicate string:${pred}`
ToIOSPredicate(pred) == <<"-ios predicate string:">> \o pred

\* new PageElement({ android, ios }) of two selector strings; {} for a
\* list that is not given
ElementOf(android, ios) ==
  LET input(sel) == IF sel = {} THEN NoInput
                    ELSE One(StringInput(Nullish(sel, <<>>)))
  IN  NewPageElement([android |-> input(android), ios |-> input(ios),
                      universal |-> NoInput])

\* PageElement.byTextExact(text) and PageElement.byTextContains(text)
ByText(method, op, text) ==
  ElementOf({ToAndroidUIA(<<"new UiSelector().", method, "(">>
                            \o QuoteJava(text) \o <<")">>)},
            {ToIOSPredicate(<<"name ", op, " ">> \o QuoteNS(text)
                              \o <<" OR label ", op, " ">> \o QuoteNS(text)
                              \o <<" OR value ", op, " ">> \o QuoteNS(text))})
ByTextExact(text) == ByText("text", "==", text)
ByTextContains(text) == ByText("textContains", "CONTAINS", text)

\* an option that is a boolean or not given
OptionalBoolean == {{}, {TRUE}, {FALSE}}

\* a || b on optional strings: '' and undefined are falsy
OrElse(a, b) == IF a \in {{}, {<<>>}} THEN b ELSE a

\* getAndroidAppPackage() with no cache: capabilities and environment are
\* read at every call
GetAndroidAppPackageUncached(cache, caps, env) ==
  OrElse(OrElse(OrElse(caps.appium, caps.legacy), env), {})
\* getAndroidAppPackage(): the cache it leaves, which is what it returns
GetAndroidAppPackage(cache, caps, env) ==
  IF OrElse(cache, {}) # {} THEN cache
  ELSE OrElse(OrElse(OrElse(caps.appium, caps.legacy), env), {})

\* PageElement.byResourceId(id, opts) for the package that was resolved
ByResourceId(id, opts, pkg) ==
  IF Nullish(opts.includePackagePrefix, TRUE) /\ OrElse(pkg, {}) # {}
       /\ ~Nullish(opts.regex, FALSE)
    THEN ElementOf({ToAndroidUIA(
                      <<"new UiSelector().", "resourceId", "(">>
                        \o QuoteJava(Nullish(pkg, <<>>) \o <<":id/">> \o id)
                        \o <<")">>)}, {})
    ELSE ElementOf({ToAndroidUIA(
                      <<"new UiSelector().", "resourceIdMatches", "(">>
                        \o QuoteJava(<<"(.+:id/)?">> \o EscapeRegex(id)
                                       \o <<"$">>)
                        \o <<")">>)}, {})


(***************************************************************************)
(* collectFailureBundle (src/runtime/diagnostics.ts).  The page source is   *)
(* known by its length; a dump of "dumpsys package" is a sequence of        *)
(* tokens, white space and punctuation kept as tokens.                      *)
(***************************************************************************)
\* opts.maxSourceLength given by a caller
ShortSourceLength == 3
\* opts.maxSourceLength ?? 250_000
DefaultMaxSourceLength == 250000
\* raw.slice(0, 250_000)
MaxRawLength == 250000

\* truthy(v): /^(1|true|yes|on)$/i on an optional environment value
EnvTruthy(v) == {LowerToken(t) : t \in v} \cap {"1", "true", "yes", "on"} # {}

\* the length of src.slice(0, n)
SliceLength(len, n) ==
  IF n >= 0 THEN Min(len, n) ELSE Max(len + n, 0)

\* the page source cut although it is exactly as long as allowed
TruncateSourceInclusive(len, maxLen) ==
  IF len >= maxLen
    THEN [kept |-> SliceLength(len, maxLen), truncated |-> {len - maxLen}]
    ELSE [kept |-> len, truncated |-> {}]
\* src.length > maxLen
\*   ? src.slice(0, maxLen) + `\n/* truncated ${src.length - maxLen} chars */`
\*   : src
\* kept: how many leading characters of src are stored; truncated: the
\* number in the marker, {} with no marker
TruncateSource(len, maxLen) ==
  IF len > maxLen
    THEN [kept |-> SliceLength(len, maxLen), truncated |-> {len - maxLen}]
    ELSE [kept |-> len, truncated |-> {}]

\* \s* from position i on
RECURSIVE SkipSpace(_, _)
SkipSpace(s, i) ==
  IF i <= Len(s) /\ s[i] \in WhiteSpace THEN SkipSpace(s, i + 1) ELSE i

\* raw.match(/grantedPermissions:\s*\[([^\]]*)\]/s): {} for no match, else
\* {m[1]} of the leftmost match
GrantedBlock(raw) ==
  LET open(i) == SkipSpace(raw, i + 1)
      closes(i) == {k \in (open(i) + 1)..Len(raw) : raw[k] = "]"}
      starts == {i \in 1..Len(raw) :
                   /\ raw[i] = "grantedPermissions:"
                   /\ open(i) <= Len(raw)
                   /\ raw[open(i)] = "["
                   /\ closes(i) # {}}
  IN  IF starts = {} THEN {}
      ELSE LET i == CHOOSE x \in starts : \A y \in starts : x <= y
               k == CHOOSE x \in closes(i) : \A y \in closes(i) : x <= y
           IN  {SubSeq(raw, open(i) + 1, k - 1)}

\* String.prototype.split(sep) for a separator of one token
RECURSIVE Split(_, _)
Split(s, sep) ==
  LET at == {i \in 1..Len(s) : s[i] = sep}
  IN  IF at = {} THEN <<s>>
      ELSE LET i == CHOOSE x \in at : \A y \in at : x <= y
           IN  <<SubSeq(s, 1, i - 1)>> \o Split(SubSeq(s, i + 1, Len(s)), sep)

\* m[1].split(',').map((s) => s.trim()).filter(Boolean)
BlockEntries(block) ==
  LET parts == Split(block, ",")
  IN  FilterBoolean([i \in 1..Len(parts) |-> Trim(parts[i])])

\* tokens that /android\.permission\.[\w_]+/i matches
AndroidPermissions ==
  {"android.permission.CAMERA", "android.permission.READ_CONTACTS"}

\* line.match(/(android\.permission\.[\w_]+)\s*:\s*granted\s*=\s*(true|false)/i)
\* {} for no match, else the name and whether m2[2].toLowerCase() is 'true'
LinePair(line) ==
  LET colon(p) == SkipSpace(line, p + 1)
      word(p) == SkipSpace(line, colon(p) + 1)
      equals(p) == SkipSpace(line, word(p) + 1)
      bool(p) == SkipSpace(line, equals(p) + 1)
      at == {p \in 1..Len(line) :
               /\ line[p] \in AndroidPermissions
               /\ bool(p) <= Len(line)
               /\ line[colon(p)] = ":"
               /\ line[word(p)] \in {"granted", "Granted"}
               /\ line[equals(p)] = "="
               /\ line[bool(p)] \in {"true", "TRUE", "false", "FALSE"}}
  IN  IF at = {} THEN {}
      ELSE LET p == CHOOSE x \in at : \A y \in at : x <= y
           IN  {[name |-> <<line[p]>>,
                 granted |-> line[bool(p)] \in {"true", "TRUE"}]}

\* the names pushed to granted (want = TRUE) or denied over raw.split('\n')
LinePairs(raw, want) ==
  LET lines == Split(raw, "\n")
      RECURSIVE pushed(_)
      pushed(i) ==
        IF i > Len(lines) THEN <<>>
        ELSE (IF LinePair(lines[i]) # {}
                   /\ Nullish(LinePair(lines[i]), Undefined).granted = want
                THEN <<Nullish(LinePair(lines[i]), Undefined).name>>
                ELSE <<>>) \o pushed(i + 1)
  IN  pushed(1)

\* the permission names of the model in the order of Array.prototype.sort
PermissionOrder ==
  << <<"android.permission.CAMERA">>, <<"android.permission.READ_CONTACTS">>,
     <<"com.app.permission.PUSH">> >>
\* Array.from(new Set(list)) without the sort
UniqueOnly(list) ==
  LET RECURSIVE firsts(_)
      firsts(i) ==
        IF i > Len(list) THEN <<>>
        ELSE (IF \E j \in 1..(i - 1) : list[j] = list[i] THEN <<>>
              ELSE <<list[i]>>) \o firsts(i + 1)
  IN  firsts(1)
\* Array.from(new Set(list)).sort()
SortUnique(list) ==
  LET listed(e) == \E i \in 1..Len(list) : list[i] = e
  IN  SelectSeq(PermissionOrder, listed)

\* lines 134-162: granted and denied of one dump, raw when asked for
AndroidPermissionsOf(raw, includeRaw) ==
  LET m == GrantedBlock(raw)
      granted == IF m # {} THEN BlockEntries(Nullish(m, <<>>))
                 ELSE LinePairs(raw, TRUE)
      denied == IF m # {} THEN <<>> ELSE LinePairs(raw, FALSE)
  IN  [granted |-> {SortUnique(granted)}, denied |-> {SortUnique(denied)},
       raw |-> IF EnvTruthy(includeRaw)
                 THEN {SubSeq(raw, 1, SliceLength(Len(raw), MaxRawLength))}
                 ELSE {},
       iosTcc |-> {}]

\* Number(s) for the columns of the TCC table
NumberOf(s) == IF s = "1" THEN 1 ELSE IF s = "2" THEN 2 ELSE 0

\* lines 184-192: the rows of the sqlite3 output; a line is the tuple of
\* its columns, the empty line is <<>>
TccRows(stdout) ==
  LET lines == FilterBoolean(stdout)
  IN  [i \in 1..Len(lines) |->
         [service |-> lines[i][1], allowed |-> NumberOf(lines[i][2]),
          prompt_count |-> NumberOf(lines[i][3])]]

\* a field that is written although the query threw
FieldOfAnyway(o) == {o.stdout}
\* the value a driver query leaves in its field
FieldOf(o) == IF o.threw THEN {} ELSE {o.stdout}

\* the TCC table read with one of the two identifiers only
HasIdsEither(udid, bundleId) ==
  OrElse(udid, {}) # {} \/ OrElse(bundleId, {}) # {}
\* udid && bundleId
HasIds(udid, bundleId) == OrElse(udid, {}) # {} /\ OrElse(bundleId, {}) # {}

\* the try blocks of collectFailureBundle
CollectCatches ==
  {"getContext", "getContexts", "getWindowRect", "getPageSource",
   "getCurrentPackage", "getCurrentActivity", "dumpsys", "sqlite3"}

\* collectFailureBundle(opts): the bundle, the calls that were made and
\* whether an error left the function
CollectFailureBundle(inp) ==
  LET opts == inp.opts
      includeSource == Nullish(opts.includePageSource, TRUE)
      maxLen == Nullish(opts.maxSourceLength, DefaultMaxSourceLength)
      android == inp.platform = "android"
      askPackage == android /\ OrElse(opts.packageId, {}) = {}
      asked == IF askPackage /\ ~inp.getCurrentPackage.threw
                 THEN inp.getCurrentPackage.value ELSE opts.packageId
      pkg == IF OrElse(asked, {}) = {} THEN inp.env.ANDROID_APP_PACKAGE
             ELSE asked
      hasPkg == OrElse(pkg, {}) # {}
      udid == inp.env.IOS_UDID
      bundleId == OrElse(opts.bundleId, inp.env.IOS_BUNDLE_ID)
      hasIds == HasIds(udid, bundleId)
      calls ==
        {"getContext", "getContexts", "getWindowRect"}
          \cup (IF includeSource THEN {"getPageSource"} ELSE {})
          \cup (IF askPackage THEN {"getCurrentPackage"} ELSE {})
          \cup (IF android THEN {"getCurrentActivity"} ELSE {})
          \cup (IF android /\ hasPkg THEN {"dumpsys"} ELSE {})
          \cup (IF ~android /\ hasIds THEN {"sqlite3"} ELSE {})
      failed ==
        {c \in calls :
           \/ c = "getContext" /\ inp.getContext.threw
           \/ c = "getContexts" /\ inp.getContexts.threw
           \/ c = "getWindowRect" /\ inp.getWindowRect.threw
           \/ c = "getPageSource" /\ inp.getPageSource.threw
           \/ c = "getCurrentPackage" /\ inp.getCurrentPackage.threw
           \/ c = "getCurrentActivity" /\ inp.getCurrentActivity.threw
           \/ c = "dumpsys" /\ inp.dumpsys.threw
           \/ c = "sqlite3" /\ inp.sqlite3.threw}
      sourceNotes ==
        IF "getPageSource" \in failed THEN <<"getPageSource() failed">>
        ELSE <<>>
      platformNotes ==
        IF android
          THEN IF ~hasPkg THEN <<"packageId not resolved for Android">>
               ELSE IF "dumpsys" \in failed
                 THEN <<"android dumpsys parse failed">>
               ELSE <<>>
          ELSE IF ~hasIds
                 THEN <<"iOS permissions collection requires IOS_UDID and bundleId">>
               ELSE IF "sqlite3" \in failed
                 THEN <<"iOS Simulator TCC read failed">>
               ELSE <<>>
  IN  [threw |-> failed \ CollectCatches # {},
       calls |-> calls,
       failed |-> failed,
       bundle |->
         [platform |-> inp.platform,
          context |-> FieldOf(inp.getContext),
          contexts |-> FieldOf(inp.getContexts),
          windowRect |-> FieldOf(inp.getWindowRect),
          pageSource |->
            IF includeSource /\ ~inp.getPageSource.threw
              THEN {TruncateSource(inp.getPageSource.len, maxLen)} ELSE {},
          app |->
            IF android
              THEN [packageId |-> pkg, bundleId |-> {},
                    activity |-> FieldOf(inp.getCurrentActivity)]
              ELSE [packageId |-> {}, bundleId |-> bundleId, activity |-> {}],
          permissions |->
            IF android /\ hasPkg /\ ~inp.dumpsys.threw
              THEN {AndroidPermissionsOf(inp.dumpsys.stdout,
                                         inp.env.AUTO_EXPLAIN_INCLUDE_RAW)}
            ELSE IF ~android /\ hasIds /\ ~inp.sqlite3.threw
              THEN {[granted |-> {}, denied |-> {}, raw |-> {},
                     iosTcc |-> {TccRows(inp.sqlite3.stdout)}]}
            ELSE {},
          notes |-> sourceNotes \o platformNotes]]

\* outputs of `dumpsys package <pkg>`: a bracketed list with blanks, a
\* repeated and an empty entry, followed by a pair line; pair lines only,
\* one of them repeated, one in capitals, one of another name space; an
\* empty bracketed list in front of a pair line; a header with no bracket;
\* a bracket that is not closed; nothing
Dumps ==
  LET cam == "android.permission.CAMERA"
      read == "android.permission.READ_CONTACTS"
      push == "com.app.permission.PUSH"
      pair(name, bool) == <<name, ":", " ", "granted", "=", bool, "\n">>
  IN  {<<"grantedPermissions:", " ", "[", read, ",", " ", push, ",", ",",
         " ", cam, ",", read, " ", "]", "\n">> \o pair(cam, "false"),
       pair(read, "true") \o pair(cam, "false")
         \o <<" ", read, " ", ":", "Granted", " ", "=", " ", "TRUE", "\n">>
         \o pair(push, "true") \o pair(cam, "false") \o pair(cam, "true"),
       <<"grantedPermissions:", "\n", "[", "]", "\n">> \o pair(read, "false"),
       <<"grantedPermissions:", "\n">> \o pair(cam, "true"),
       <<"grantedPermissions:", "[", cam, "\n">>,
       <<>>}

\* outputs of the sqlite3 query: two rows and an empty line; no row
TccStdouts ==
  {<< <<"kTCCServiceCamera", "1", "0">>, <<>>,
      <<"kTCCServicePhotos", "0", "2">> >>, <<>>}

SourceLengths ==
  {0, ShortSourceLength - 1, ShortSourceLength, ShortSourceLength + 1,
   DefaultMaxSourceLength - 1, DefaultMaxSourceLength,
   DefaultMaxSourceLength + 1, 300000}
SourceOutcomes ==
  {[threw |-> TRUE, len |-> 0]} \cup [threw : {FALSE}, len : SourceLengths]

\* a driver query that throws (bad) or answers
Query(bad, answer) == IF bad THEN Threw ELSE Out(answer)

NoEnv ==
  [ANDROID_APP_PACKAGE |-> {}, AUTO_EXPLAIN_INCLUDE_RAW |-> {},
   IOS_UDID |-> {}, IOS_BUNDLE_ID |-> {}]
NoOpts ==
  [includePageSource |-> {}, maxSourceLength |-> {}, packageId |-> {},
   bundleId |-> {}]

\* the calls of collectFailureBundle: the queries common to both platforms
\* with every page source; the android branch; the ios branch
CollectInputs ==
  {[op |-> "collect?", platform |-> "ios",
    opts |-> [NoOpts EXCEPT !.includePageSource = include,
                            !.maxSourceLength = maxLen],
    env |-> NoEnv,
    getContext |-> Query(bad[1], <<"NATIVE_APP">>),
    getContexts |-> Query(bad[2], <<"NATIVE_APP", "WEBVIEW_1">>),
    getWindowRect |-> Query(bad[3], <<"rect">>),
    getPageSource |-> source,
    getCurrentPackage |-> [threw |-> TRUE, value |-> {}],
    getCurrentActivity |-> Threw, dumpsys |-> Threw, sqlite3 |-> Threw] :
     include \in OptionalBoolean,
     maxLen \in {{}, {0}, {ShortSourceLength}},
     bad \in BOOLEAN \X BOOLEAN \X BOOLEAN,
     source \in SourceOutcomes}
  \cup
  {[op |-> "collect?", platform |-> "android",
    opts |-> [NoOpts EXCEPT !.packageId = given],
    env |-> [NoEnv EXCEPT !.ANDROID_APP_PACKAGE = fromEnv,
                          !.AUTO_EXPLAIN_INCLUDE_RAW = flag],
    getContext |-> Query(bad, <<"NATIVE_APP">>),
    getContexts |-> Query(bad, <<"NATIVE_APP", "WEBVIEW_1">>),
    getWindowRect |-> Query(bad, <<"rect">>),
    getPageSource |-> [threw |-> bad, len |-> 0],
    getCurrentPackage |-> current,
    getCurrentActivity |-> activity, dumpsys |-> dump, sqlite3 |-> Threw] :
     given \in {{}, {<<>>}, {<<"com.opt">>}},
     fromEnv \in {{}, {<<"com.env">>}},
     flag \in {{}, {"0"}, {"1"}, {"Yes"}},
     bad \in BOOLEAN,
     current \in {[threw |-> TRUE, value |-> {}],
                  [threw |-> FALSE, value |-> {}],
                  [threw |-> FALSE, value |-> {<<"com.cur">>}]},
     activity \in Outcomes({<<".Main">>}),
     dump \in Outcomes(Dumps)}
  \cup
  {[op |-> "collect?", platform |-> "ios",
    opts |-> [NoOpts EXCEPT !.bundleId = given],
    env |-> [NoEnv EXCEPT !.IOS_UDID = udid, !.IOS_BUNDLE_ID = fromEnv],
    getContext |-> Query(bad, <<"NATIVE_APP">>),
    getContexts |-> Query(bad, <<"NATIVE_APP", "WEBVIEW_1">>),
    getWindowRect |-> Query(bad, <<"rect">>),
    getPageSource |-> [threw |-> bad, len |-> 0],
    getCurrentPackage |-> [threw |-> TRUE, value |-> {}],
    getCurrentActivity |-> Threw, dumpsys |-> Threw, sqlite3 |-> rows] :
     given \in {{}, {<<"com.opt">>}},
     fromEnv \in {{}, {<<"com.env">>}},
     udid \in {{}, {<<>>}, {<<"UDID-1">>}},
     bad \in BOOLEAN,
     rows \in Outcomes(TccStdouts)}

(***************************************************************************)
(* step (src/plugins/reporting/allure/steps.ts) with attachFailureBundle,   *)
(* and acceptAlert / dismissAlert (src/runtime/mobile-actions.ts).  The     *)
(* calls of the reporter are kept as a log of events.                       *)
(***************************************************************************)
\* a timeout given to acceptAlert / dismissAlert
ShortPauseMs == 100
\* acceptAlert(timeout = 5000)
DefaultAlertTimeoutMs == 5000

\* screenshotModeFromEnv()
ScreenshotModeFromEnv(v) ==
  LET lower == {LowerToken(t) : t \in v}
  IN  IF lower \cap {"always", "true", "1", "yes", "on"} # {} THEN "always"
      ELSE IF lower \cap {"off", "false", "0", "no"} # {} THEN "off"
      ELSE "onFail"

\* normalizeMode(m); the booleans are written "true" and "false", which are
\* no modes
NormalizeMode(m, v) ==
  IF m = {"true"} THEN "always"
  ELSE IF m = {"false"} THEN "off"
  ELSE Nullish(m, ScreenshotModeFromEnv(v))

\* attachStepScreenshot(title): the attachments it makes
AttachStepScreenshot(inp) ==
  IF ~inp.takeScreenshot.threw /\ ~inp.attachScreenshot.threw
    THEN <<"attachment: screenshot">> ELSE <<>>

\* attachFailureBundle(name, opts): the attachments it makes and whether an
\* error leaves it; serialize is collectFailureBundle and JSON.stringify,
\* attachBundle and attachError are the two calls of allure.addAttachment
AttachFailureBundle(inp) ==
  IF ~inp.serialize.threw /\ ~inp.attachBundle.threw
    THEN [events |-> <<"attachment: bundle">>, threw |-> FALSE]
  ELSE IF ~inp.attachError.threw
    THEN [events |-> <<"attachment: error">>, threw |-> FALSE]
  ELSE [events |-> <<>>, threw |-> TRUE]

\* step(title, fn, opts): the events of the reporter and the error that is
\* raised to the caller, {} when fn's result is returned
Step(inp) ==
  LET mode == NormalizeMode(inp.screenshot, inp.env.STEP_SCREENSHOT)
      shot == AttachStepScreenshot(inp)
      explain == EnvTruthy(inp.env.AUTO_EXPLAIN_FAILURE)
      bundle == AttachFailureBundle(inp)
      onFail == (IF mode # "off" THEN shot ELSE <<>>)
                  \o (IF explain THEN bundle.events ELSE <<>>)
  IN  IF ~inp.fn.threw
        THEN [events |-> <<"startStep">>
                           \o (IF mode = "always" THEN shot ELSE <<>>)
                           \o <<"endStep: passed">>,
              raised |-> {}]
      ELSE IF explain /\ bundle.threw
        THEN [events |-> <<"startStep">> \o onFail,
              raised |-> {"addAttachment"}]
      ELSE [events |-> <<"startStep">> \o onFail \o <<"endStep: failed">>,
            raised |-> {"fn"}]

StepInputs ==
  [op : {"step?"},
   screenshot : {{}, {"true"}, {"false"}, {"onFail"}},
   env : [STEP_SCREENSHOT : {{}, {"ON"}, {"no"}},
          AUTO_EXPLAIN_FAILURE : {{}, {"0"}, {"Yes"}}],
   fn : Plain, takeScreenshot : Plain, attachScreenshot : Plain,
   serialize : Plain, attachBundle : Plain, attachError : Plain]

\* the second attempt of acceptAlert with no catch around it
AlertRetryUncaught(name, inp) ==
  IF ~inp.first.threw
    THEN [calls |-> <<name>>, pauses |-> <<>>, threw |-> FALSE]
    ELSE [calls |-> <<name, name>>,
          pauses |-> <<Nullish(inp.timeout, DefaultAlertTimeoutMs)>>,
          threw |-> inp.second.threw]
\* acceptAlert(timeout) and dismissAlert(timeout): the driver calls, the
\* pauses and whether an error leaves the function
Alert(name, inp) ==
  IF ~inp.first.threw
    THEN [calls |-> <<name>>, pauses |-> <<>>, threw |-> FALSE]
    ELSE [calls |-> <<name, name>>,
          pauses |-> <<Nullish(inp.timeout, DefaultAlertTimeoutMs)>>,
          threw |-> FALSE]

AlertInputs ==
  [op : {"acceptAlert?", "dismissAlert?"},
   timeout : {{}, {0}, {ShortPauseMs}},
   first : Plain, second : Plain]

TextInputs ==
  [op : {"byTextExact?", "byTextContains?"},
   text : Texts({"a", " ", DQ, BS}, MaxText)]

Packages == {{}, {<<>>}, {<<"com.app">>}}
\* browser.capabilities and process.env.ANDROID_APP_PACKAGE
SessionCaps == [appium : Packages, legacy : {{}, {<<"com.old">>}}]
PackageEnvs == {{}, {<<"com.env">>}}
ResourceIdInputs ==
  [op : {"byResourceId?"},
   id : Texts({"a", "."}, MaxId),
   opts : [includePackagePrefix : OptionalBoolean, regex : OptionalBoolean],
   cache : {{}},
   caps : SessionCaps,
   env : PackageEnvs]

NewInputs == [op : {"new?"}, opts : ElementOpts]

AttachInputs ==
  [op : {"attachFailureBundle?"},
   serialize : Plain, attachBundle : Plain, attachError : Plain]

RuntimeInit ==
  /\ unit \in TextInputs \cup ResourceIdInputs \cup NewInputs
                \cup CollectInputs \cup StepInputs \cup AlertInputs
                \cup AttachInputs
  /\ cfg = BaseConfig
  /\ androidSerial = Undefined
  /\ iosUdid = Undefined
  /\ started = FALSE
  /\ hook = "idle"
  /\ pc = "idle"
  /\ attempt = 0
  /\ forceColdBoot = FALSE
  /\ serial = Undefined
  /\ remaining = 0
  /\ hcI = 0
  /\ err = NoError
  /\ last = NoLast
  /\ cmds = NoCmds
  /\ sleeps = <<>>
  /\ bootArgs = FALSE
  /\ stopLog = <<>>
  /\ whLog = NoWh
  /\ sigSeen = {}
  /\ seenHealthy = {}
  /\ scen = "off"
  /\ hist = NoHist

RuntimeByTextExact ==
  /\ unit.op = "byTextExact?"
  /\ unit' = [op |-> "byTextExact", text |-> unit.text,
              el |-> ByTextExact(unit.text)]
  /\ ElementFrame

RuntimeByTextContains ==
  /\ unit.op = "byTextContains?"
  /\ unit' = [op |-> "byTextContains", text |-> unit.text,
              el |-> ByTextContains(unit.text)]
  /\ ElementFrame

\* byResourceId(id, opts): line 1160 resolves the package and fills the cache
RuntimeByResourceId ==
  /\ unit.op = "byResourceId?"
  /\ LET pkg == GetAndroidAppPackage(unit.cache, unit.caps, unit.env)
     IN  unit' = [op |-> "byResourceId", id |-> unit.id, opts |-> unit.opts,
                  was |-> unit.cache, cache |-> pkg, caps |-> unit.caps,
                  env |-> unit.env,
                  el |-> ByResourceId(unit.id, unit.opts, pkg)]
  /\ ElementFrame

\* setAndroidAppPackage(pkg), then the next call of byResourceId
RuntimeSetAndroidAppPackage ==
  /\ unit.op = "byResourceId"
  /\ \E pkg \in {<<>>, <<"com.pin">>} :
       unit' = [op |-> "byResourceId?", id |-> unit.id, opts |-> unit.opts,
                cache |-> {pkg}, caps |-> unit.caps, env |-> unit.env]
  /\ ElementFrame

\* the capabilities of the session and the environment change while the
\* module variable ANDROID_APP_PACKAGE_CACHE stays, then the next call of
\* byResourceId
RuntimeNewSession ==
  /\ unit.op = "byResourceId"
  /\ \E caps \in SessionCaps, env \in PackageEnvs :
       unit' = [op |-> "byResourceId?", id |-> unit.id, opts |-> unit.opts,
                cache |-> unit.cache, caps |-> caps, env |-> env]
  /\ ElementFrame

\* new PageElement(opts)
RuntimeNew ==
  /\ unit.op = "new?"
  /\ unit' = [op |-> "new", opts |-> unit.opts,
              el |-> NewPageElement(unit.opts)]
  /\ ElementFrame

\* withFallbacks(opts) on the element that was built
RuntimeWithFallbacks ==
  /\ unit.op = "new"
  /\ \E o \in ElementOpts :
       LET r == WithFallbacks(unit.el,
                              [android |-> FallbackArg(o.android),
                               ios |-> FallbackArg(o.ios),
                               universal |-> FallbackArg(o.universal)])
       IN  unit' = [op |-> "withFallbacks", opts |-> o, before |-> unit.el,
                    el |-> r.el, threw |-> r.threw]
  /\ ElementFrame

\* selectors() and toSelector() on the element
RuntimeSelectors ==
  /\ unit.op \in {"new", "withFallbacks"}
  /\ \E plat \in Platforms :
       unit' = [op |-> "selectors", el |-> unit.el, plat |-> plat,
                list |-> Selectors(unit.el, plat),
                best |-> ToSelector(unit.el, plat)]
  /\ ElementFrame

\* collectFailureBundle(opts)
RuntimeCollect ==
  /\ unit.op = "collect?"
  /\ unit' = [op |-> "collect", inp |-> unit,
              out |-> CollectFailureBundle(unit)]
  /\ ElementFrame

\* step(title, fn, opts)
RuntimeStep ==
  /\ unit.op = "step?"
  /\ unit' = [op |-> "step", inp |-> unit, out |-> Step(unit)]
  /\ ElementFrame

\* attachFailureBundle(name, opts)
RuntimeAttachFailureBundle ==
  /\ unit.op = "attachFailureBundle?"
  /\ unit' = [op |-> "attachFailureBundle", inp |-> unit,
              out |-> AttachFailureBundle(unit)]
  /\ ElementFrame

\* acceptAlert(timeout)
RuntimeAcceptAlert ==
  /\ unit.op = "acceptAlert?"
  /\ unit' = [op |-> "acceptAlert", inp |-> unit,
              out |-> Alert("driver.acceptAlert", unit)]
  /\ ElementFrame

\* dismissAlert(timeout)
RuntimeDismissAlert ==
  /\ unit.op = "dismissAlert?"
  /\ unit' = [op |-> "dismissAlert", inp |-> unit,
              out |-> Alert("driver.dismissAlert", unit)]
  /\ ElementFrame

RuntimeNext ==
  \/ RuntimeStep
  \/ RuntimeAttachFailureBundle
  \/ RuntimeAcceptAlert
  \/ RuntimeDismissAlert
  \/ RuntimeCollect
  \/ RuntimeByTextExact
  \/ RuntimeByTextContains
  \/ RuntimeByResourceId
  \/ RuntimeSetAndroidAppPackage
  \/ RuntimeNewSession
  \/ RuntimeNew
  \/ RuntimeWithFallbacks
  \/ RuntimeSelectors

SpecRuntime == RuntimeInit /\ [][RuntimeNext]_vars

(***************************************************************************)
(* Properties                                                              *)
(***************************************************************************)
Android == cfg.platform = "android"
Returned(via) == hook = "idle" /\ last.via = via

\* C1: when the first attempt of an android ensure-ready finds a listed
\* emulator that passes the health check, the hook returns with started set
\* and has issued two listings and health probes only: no boot, no kill, no
\* kill-server, no start-server, no other command, no sleep.
C1_HealthyDeviceNoBoot ==
  (Returned("healthy") /\ last.attempts = 1) =>
    /\ last.status = "returned"
    /\ started
    /\ cmds.list = 2
    /\ cmds.boot = 0
    /\ cmds.kill = 0
    /\ cmds.killServer = 0
    /\ cmds.startServer = 0
    /\ cmds.other = 0
    /\ sleeps = <<>>

\* a later invocation (both serials have been seen healthy by now) that
\* again found the device healthy at once
C1_Witness ==
  /\ Returned("healthy")
  /\ last.hook = "beforeSession"
  /\ last.attempts = 1
  /\ seenHealthy = EmulatorSerials

\* the ensure-ready hook has rejected
Raised == Android /\ hook = "idle" /\ last.status = "raised"

C2_AfterRaise ==
  Raised =>
    /\ last.attempts = EmulatorRetries(cfg) + 1
    /\ last.err.kind # "none"
    /\ last.err.at = EmulatorRetries(cfg)
    /\ sleeps = [i \in 1..EmulatorRetries(cfg) |-> 1500 * i]
    /\ \A i, j \in 1..Len(sleeps) : i < j => sleeps[i] < sleeps[j]

\* C2: a failed attempt that is not the last is followed by a sleep of
\* 1500 ms * attempt number and the next attempt; the failure of attempt
\* retries+1 rejects the hook with that attempt's error and without a sleep;
\* so a rejected hook made retries+1 attempts and slept 1500, 3000, ...
C2_RetriesThenRaises ==
  [][ /\ (pc = "catch" /\ attempt < EmulatorRetries(cfg)) =>
            /\ pc' = "startOrHeal"
            /\ attempt' = attempt + 1
            /\ sleeps' = Append(sleeps, 1500 * (attempt + 1))
      /\ (pc = "catch" /\ attempt >= EmulatorRetries(cfg)) =>
            /\ hook' = "idle"
            /\ last'.status = "raised"
            /\ last'.err = err
            /\ sleeps' = sleeps
      /\ C2_AfterRaise' ]_vars

\* the default of two retries: three attempts, sleeps of 1500 and 3000 ms
C2_Witness ==
  /\ Raised
  /\ cfg.emulatorRetries = {}
  /\ last.attempts = 3
  /\ sleeps = <<1500, 3000>>

\* the identifier the platform tracks
Tracked == IF Android THEN androidSerial ELSE iosUdid

\* C3: after any sequence of hooks (no hook is running), started implies
\* that an identifier is tracked and that the tracked device has been
\* observed healthy / booted.
C3_StartedImpliesTrackedHealthy ==
  (hook = "idle" /\ started) =>
    (Tracked # Undefined /\ Tracked \in seenHealthy)

\* the probes of isAndroidHealthy in the order they are issued
ProbeOrder == <<"list", "state", "rel", "pm", "s1", "s2">>
\* the method ran on its own
RanHealth == unit.op = "isAndroidHealthy"
\* the i-th probe was issued and threw
IssuedAndThrew(i) ==
  i <= Len(unit.result.cmds) /\ unit.probes[ProbeOrder[i]].threw

\* C4: isAndroidHealthy does not raise, returns a boolean, and returns false
\* whenever a probe it issued threw.
C4_FalseWhenAnyProbeThrows ==
  RanHealth =>
    /\ ~unit.result.threw
    /\ unit.result.ok \in BOOLEAN
    /\ (\E i \in 1..6 : IssuedAndThrew(i)) => ~unit.result.ok

\* what a probe printed, white space removed
Printed(o, text) == ~o.threw /\ Trim(o.stdout) = text
\* the serial is the first column of a line below the header
Listed(o, s) ==
  /\ ~o.threw
  /\ \E i \in 2..Len(o.stdout) : o.stdout[i] # <<>> /\ o.stdout[i][1] = s

\* C5: isAndroidHealthy returns true only if the serial is listed, get-state
\* prints "device", the release is not empty, pm path prints a package and
\* sys.boot_completed prints "1" at the first read, or at the one retry made
\* after one sleep of the interval; an empty release gives false.
C5_TrueOnlyIfAllProbesPass ==
  RanHealth =>
    LET p == unit.probes
        r == unit.result
    IN  /\ r.ok =>
              /\ Listed(p.list, unit.serial)
              /\ Printed(p.state, <<"device">>)
              /\ ~p.rel.threw /\ Trim(p.rel.stdout) # <<>>
              /\ ~p.pm.threw /\ Includes(p.pm.stdout, "package:")
              /\ \/ Printed(p.s1, <<"1">>) /\ r.slept = <<>> /\ Len(r.cmds) = 5
                 \/ /\ ~Printed(p.s1, <<"1">>)
                    /\ Printed(p.s2, <<"1">>)
                    /\ r.slept = <<HealthInterval(cfg)>>
                    /\ Len(r.cmds) = 6
        /\ (p.rel.threw \/ Trim(p.rel.stdout) = <<>>) => ~r.ok

\* true at the retry
C5_Witness ==
  /\ RanHealth
  /\ unit.result.ok
  /\ unit.result.slept = <<HealthInterval(cfg)>>

\* the end-to-end scenario has run: the first listing showed no emulator,
\* the first poll of the boot showed one, the boot-completion signals turned
\* true after the first round, the health check passed at once
ScenarioRun == Returned("booted") /\ scen = "healthy"

\* C6 as stated: the scenario ends with one boot, two listings and started.
C6_ScenarioTwoListings ==
  ScenarioRun => (cmds.boot = 1 /\ cmds.list = 2 /\ started)

\* C6 amended: the scenario ends with one boot, three listings (startOrHeal,
\* one poll of the boot, the health check) and started.
C6_ScenarioThreeListings ==
  ScenarioRun =>
    (cmds.boot = 1 /\ cmds.list = 3 /\ started /\ last.attempts = 1)

C6_Witness == ScenarioRun /\ last.hook = "onPrepare"

\* C7: waitForAndroidHealthy is entered only after waitForBootComplete read
\* a boot-completed "1" for the serial; the unlock (after which started is
\* set) is reached only after waitForAndroidHealthy returned true; started
\* turns true only by the healthy branch or the end of the boot, and on
\* both a boot-completed "1" was read for the tracked serial in that attempt.
C7_BootSignalBeforeStarted ==
  [][ /\ pc' = "waitHealthy" => serial' \in sigSeen'
      /\ pc' = "unlock" =>
            /\ pc \in {"waitHealthy", "unlock"}
            /\ whLog'.ret = "true"
            /\ serial' = androidSerial'
            /\ serial' \in sigSeen'
      /\ (Android /\ hook # "idle" /\ last'.via = "booted") => pc = "unlock"
      /\ (Android /\ hook # "idle" /\ last'.via \in {"healthy", "booted"}) =>
            /\ started'
            /\ androidSerial' \in sigSeen'
      /\ (Android /\ ~started /\ started') =>
            last'.via \in {"healthy", "booted"} ]_vars

C7_Witness ==
  /\ Returned("booted")
  /\ started
  /\ whLog.ret = "true"
  /\ androidSerial \in sigSeen

\* C8: the boot starts with the configured timeout (240 000 ms when none is
\* configured); a poll that shows no emulator is followed by a sleep of
\* 1500 ms; once the deadline has passed the boot throws the "did not
\* appear" error, and only then; from the launch to that throw started and
\* the tracked serial are not written.
C8_AppearTimeout ==
  [][ /\ pc = "spawn" =>
            remaining' = Nullish(cfg.bootTimeoutMs, 240000)
      /\ (pc = "poll" /\ pc' = "poll") => remaining' = remaining - 1500
      /\ (pc = "poll" /\ remaining <= 0) =>
            /\ pc' = "catch"
            /\ err' = Error("appearTimeout", attempt)
      /\ (pc = "poll" /\ err'.kind = "appearTimeout") => remaining <= 0
      /\ (pc \in {"spawn", "poll"} /\ pc' \in {"poll", "catch"}) =>
            /\ started' = started
            /\ androidSerial' = androidSerial ]_vars

\* no boot timeout configured: the throw comes after 240 000 ms of polls
C8_Witness ==
  /\ pc = "catch"
  /\ err.kind = "appearTimeout"
  /\ cfg.bootTimeoutMs = {}
  /\ ~started
  /\ androidSerial = Undefined

\* C9 as stated: waitForAndroidHealthy makes at most "retries" checks.
C9_AtMostRetriesChecks ==
  /\ whLog.checks <= HealthRetries(cfg)
  /\ \A i \in 1..Len(whLog.slept) : whLog.slept[i] = HealthInterval(cfg)
  /\ whLog.ret = "true" => Len(whLog.slept) = whLog.checks - 1

\* C9 amended: waitForAndroidHealthy makes at most retries+1 checks and
\* sleeps the interval after every check that fails; it returns true at the
\* first check that passes, false after retries+1 failed checks, and makes
\* no check after it has returned.
C9_AtMostRetriesPlusOneChecks ==
  [][ /\ whLog'.checks <= HealthRetries(cfg) + 1
      /\ \A i \in 1..Len(whLog'.slept) : whLog'.slept[i] = HealthInterval(cfg)
      /\ whLog'.ret = "true" => Len(whLog'.slept) = whLog'.checks - 1
      /\ whLog'.ret = "none" => Len(whLog'.slept) = whLog'.checks
      /\ whLog'.ret = "false" =>
            /\ whLog'.checks = HealthRetries(cfg) + 1
            /\ Len(whLog'.slept) = whLog'.checks
      /\ whLog.ret # "none" => whLog' \in {whLog, NoWh} ]_vars

\* the default of three retries: four failed checks, then false
C9_Witness ==
  /\ cfg.healthRetries = {}
  /\ whLog.ret = "false"
  /\ whLog.checks = 4
  /\ whLog.slept = <<1500, 1500, 1500, 1500>>

\* C10: stopAndroid never raises; with no tracked serial it issues nothing;
\* with a tracked serial it issues "emu kill" for that serial, followed by
\* "adb kill-server" exactly when the kill failed.
C10_StopNeverRaises ==
  unit.op = "stopAndroid" =>
    LET r == unit.result
    IN  /\ ~r.threw
        /\ androidSerial = Undefined => r.cmds = <<>>
        /\ androidSerial # Undefined =>
              /\ r.cmds[1] = <<"emu kill", androidSerial>>
              /\ unit.kill.threw =>
                    (Len(r.cmds) = 2 /\ r.cmds[2][1] = "kill-server")
              /\ ~unit.kill.threw => Len(r.cmds) = 1

\* both the kill and the fallback failed
C10_Witness ==
  /\ unit.op = "stopAndroid"
  /\ androidSerial # Undefined
  /\ unit.kill.threw
  /\ unit.killServer.threw
  /\ Len(unit.result.cmds) = 2

\* onComplete has run
Completed == hook = "idle" /\ last.hook = "onComplete"
\* onComplete issued a stop command and the first one (emu kill / simctl
\* shutdown) completed without error
StopSucceeded == Completed /\ Len(stopLog) >= 1 /\ ~last.failed[1]

\* C11: after a stop whose kill / shutdown command succeeded no identifier is
\* tracked; a stop whose command failed leaves the identifier and raises
\* nothing.
C11_ClearedAfterSuccessfulStop ==
  /\ StopSucceeded => Tracked = Undefined
  /\ (Completed /\ Len(stopLog) >= 1 /\ last.failed[1]) =>
        (Tracked = stopLog[1][2] /\ last.status = "returned")

\* the kill-on-complete policy, with its default when it is not configured
KillPolicy ==
  IF cfg.killOnComplete = {} THEN Android ELSE cfg.killOnComplete = {TRUE}

C13_OnlyReadyHooksRaise ==
  /\ (hook = "idle" /\ last.status = "raised") =>
        last.hook \in {"onPrepare", "beforeSession"}
  /\ Completed => (last.status = "returned" /\ last.err = NoError)

\* the shutdown command of the ios stop failed
C13_Witness ==
  /\ Completed
  /\ ~Android
  /\ stopLog = << <<"shutdown", iosUdid>> >>
  /\ last.failed = <<TRUE>>

\* C14: when the resolved simulator is already booted the start returns
\* with the UDID tracked, started set and no boot command issued.
C14_AlreadyBootedSetsStarted ==
  (~Android /\ Returned("alreadyBooted")) =>
    /\ last.status = "returned"
    /\ iosUdid \in Udids
    /\ cmds.boot = 0
    /\ started

\* the ios start is past its boot command
IosBooting == ~Android /\ pc \in {"iosWait", "iosFinal"}

\* C15 as stated: a start that issued the boot command ends with started and
\* the UDID tracked, or with the boot-timeout error after the timeout has
\* elapsed with no booted observation, started and the UDID left alone.
C15_BootedOrTimeout ==
  [][ (pc \in {"iosBoot", "iosWait", "iosFinal"} /\ hook' = "idle") =>
        \/ /\ last'.status = "returned"
           /\ started'
           /\ iosUdid' = serial
        \/ /\ last'.err.kind = "iosBootTimeout"
           /\ remaining <= 0
           /\ serial \notin sigSeen
           /\ started' = started
           /\ iosUdid' = iosUdid ]_vars

\* C15 amended: one boot command; if it fails the start ends with its error;
\* else the foreground command is issued unless headless, the status is
\* polled every 1000 ms from the boot timeout (120 000 ms when none is
\* configured) until a booted observation or the deadline, and one more
\* status check decides: booted gives started and the UDID tracked, not
\* booted gives the boot-timeout error.  started and the tracked UDID are
\* not written on either error.
C15_BootThenPollThenFinalCheck ==
  [][ /\ pc = "iosBoot" =>
            /\ cmds'.boot = cmds.boot + 1
            /\ hook' = "idle" =>
                  /\ last'.err.kind = "commandFailed"
                  /\ last'.status = "raised"
                  /\ cmds'.other = 0
                  /\ started' = started
                  /\ iosUdid' = iosUdid
            /\ hook' # "idle" =>
                  /\ pc' = "iosWait"
                  /\ remaining' = Nullish(cfg.bootTimeoutMs, 120000)
                  /\ cmds'.other = IF cfg.headless = {TRUE} THEN 0 ELSE 1
      /\ IosBooting' => cmds'.boot = 1
      /\ (pc = "iosWait" /\ pc' = "iosWait") =>
            (remaining > 0 /\ remaining' = remaining - 1000)
      /\ (pc = "iosWait" /\ pc' = "iosFinal") =>
            (remaining <= 0 \/ serial \in sigSeen')
      /\ pc = "iosFinal" =>
            /\ hook' = "idle"
            /\ \/ /\ last'.status = "returned"
                  /\ started'
                  /\ iosUdid' = serial
                  /\ serial \in sigSeen'
               \/ /\ last'.status = "raised"
                  /\ last'.err.kind = "iosBootTimeout"
                  /\ started' = started
                  /\ iosUdid' = iosUdid ]_vars

\* no boot timeout configured: 120 000 ms of polls never saw the simulator
\* booted, the final check is about to be made
C15_Witness ==
  /\ ~Android
  /\ pc = "iosFinal"
  /\ cfg.bootTimeoutMs = {}
  /\ remaining <= 0
  /\ serial \notin sigSeen
  /\ ~started
  /\ iosUdid = Undefined

\* C16: on a host that is not macOS the ios start returns without an error
\* and without a command, and started and the tracked UDID stay unset.
C16_NonMacSkips ==
  (~Android /\ cfg.host # "darwin") =>
    /\ ~started
    /\ iosUdid = Undefined
    /\ (hook = "idle" /\ last.hook = "onPrepare") =>
          /\ last.status = "returned"
          /\ last.via = "skipped"
          /\ cmds = NoCmds
    /\ hook = "onPrepare" => (pc = "startIOS" /\ cmds = NoCmds)

C16_Witness ==
  /\ ~Android
  /\ cfg.host = "linux"
  /\ Returned("skipped")
  /\ last.hook = "onPrepare"

\* s is the beginning of t
IsPrefix(s, t) == Len(s) <= Len(t) /\ \A k \in 1..Len(s) : t[k] = s[k]

\* the lists of the element selectors() / toSelector() was called on
AndroidList == ArrayOf(unit.el.android)
IosList == ArrayOf(unit.el.ios)
UniversalList == ArrayOf(unit.el.universal)
PlatformList ==
  IF unit.plat = "android" THEN AndroidList
  ELSE IF unit.plat = "ios" THEN IosList ELSE <<>>

\* C17: withFallbacks keeps what a list held, in place, and adds behind it;
\* selectors() is the list of the platform, entry by entry, followed by the
\* universal list, entry by entry, and nothing else (no entry is taken from
\* the other platform's list); for an unknown platform it is the universal
\* list, empty when there is none.
C17_PlatformThenUniversal ==
  [][ /\ unit'.op = "withFallbacks" =>
            /\ IsPrefix(AndroidList, AndroidList')
            /\ IsPrefix(IosList, IosList')
            /\ IsPrefix(UniversalList, UniversalList')
      /\ unit'.op = "selectors" =>
            /\ unit'.el = unit.el
            /\ Len(unit'.list) = Len(PlatformList') + Len(UniversalList')
            /\ \A k \in 1..Len(PlatformList') :
                  unit'.list[k] = PlatformList'[k]
            /\ \A k \in 1..Len(UniversalList') :
                  unit'.list[Len(PlatformList') + k] = UniversalList'[k]
            /\ unit'.plat = "null" => unit'.list = UniversalList'
            /\ (unit'.plat = "null" /\ unit'.el.universal = {}) =>
                  unit'.list = <<>> ]_vars

\* an element grown by withFallbacks, resolved for ios: two ios entries in
\* front of the universal ones, the android list left out
C17_Witness ==
  /\ unit.op = "selectors"
  /\ unit.plat = "ios"
  /\ Len(IosList) = 2
  /\ IosList[1] # IosList[2]
  /\ Len(UniversalList) = 2
  /\ AndroidList # <<>>
  /\ unit.list = IosList \o UniversalList

\* toSelector() was called with no platform known
BestUnknown == unit.op = "toSelector" /\ unit.plat = "null"

C19_UnknownSingleKind ==
  BestUnknown =>
    /\ (AndroidList = <<>> /\ IosList = <<>> /\ UniversalList # <<>>) =>
          unit.best = {UniversalList[1]}
    /\ (UniversalList = <<>> /\ AndroidList # <<>>) =>
          unit.best = {AndroidList[1]}
    /\ (UniversalList = <<>> /\ AndroidList = <<>> /\ IosList # <<>>) =>
          unit.best = {IosList[1]}

\* android and ios lists that differ, no universal list
C19_Witness ==
  /\ BestUnknown
  /\ UniversalList = <<>>
  /\ AndroidList # <<>>
  /\ IosList # <<>>
  /\ AndroidList[1] # IosList[1]
  /\ unit.best = {AndroidList[1]}

\* C20: for a known platform toSelector() is the first entry of selectors(),
\* and null when selectors() is empty.
C20_KnownFirstOfSelectors ==
  (unit.op = "toSelector" /\ unit.plat # "null") =>
    /\ unit.list = PlatformList \o UniversalList
    /\ unit.list # <<>> => unit.best = {unit.list[1]}
    /\ unit.list = <<>> => unit.best = {}

\* what withFallbacks(o) makes of one list when it appends and returns
Appended(list, arg) ==
  IF arg.truthy THEN ArrayOf(list) \o ArrayOf(arg.norm) ELSE ArrayOf(list)

\* C21: withFallbacks keeps every list as a prefix of what it holds after
\* the call, puts the new entries behind it in the order of the argument,
\* leaves a list that the call does not name as it was, and returns the
\* element itself.
C21_AppendsAndReturnsThis ==
  [][ unit'.op = "withFallbacks" =>
        /\ IsPrefix(AndroidList, AndroidList')
        /\ IsPrefix(IosList, IosList')
        /\ IsPrefix(UniversalList, UniversalList')
        /\ ~unit'.threw
        /\ \E o \in FallbackOpts :
              /\ AndroidList' = Appended(unit.el.android, o.android)
              /\ IosList' = Appended(unit.el.ios, o.ios)
              /\ UniversalList' = Appended(unit.el.universal, o.universal)
              /\ ~o.android.truthy => unit'.el.android = unit.el.android
              /\ ~o.ios.truthy => unit'.el.ios = unit.el.ios
              /\ ~o.universal.truthy =>
                    unit'.el.universal = unit.el.universal ]_vars

\* the string literals of an expression, read as the android (Java) and the
\* ios (NSPredicate) dialect read them: a literal runs from a double quote
\* to the next double quote that no backslash escapes, and a backslash
\* stands for the character behind it, a double quote or a backslash
RECURSIVE Literals(_, _, _, _)
Literals(s, inside, cur, acc) ==
  IF s = <<>> THEN [ok |-> ~inside, texts |-> acc]
  ELSE IF ~inside
    THEN Literals(Tail(s), Head(s) = DQ, <<>>, acc)
  ELSE IF Head(s) = DQ
    THEN Literals(Tail(s), FALSE, <<>>, Append(acc, cur))
  ELSE IF Head(s) = BS
    THEN IF Len(s) >= 2 /\ s[2] \in {DQ, BS}
           THEN Literals(Tail(Tail(s)), TRUE, Append(cur, s[2]), acc)
           ELSE [ok |-> FALSE, texts |-> acc]
  ELSE Literals(Tail(s), TRUE, Append(cur, Head(s)), acc)
Parsed(sel) == Literals(sel, FALSE, <<>>, <<>>)

ByTextDone == unit.op \in {"byTextExact", "byTextContains"}

\* C22: the android selector of byTextExact / byTextContains holds one
\* string literal, which reads back as the text that was given, for every
\* text of ordinary characters, double quotes and backslashes; the three
\* literals of the ios predicate read back as the text for every text of
\* ordinary characters and double quotes.
C22_LiteralsReadBack ==
  ByTextDone =>
    /\ Len(ArrayOf(unit.el.android)) = 1
    /\ Parsed(ArrayOf(unit.el.android)[1]) =
         [ok |-> TRUE, texts |-> <<unit.text>>]
    /\ Len(ArrayOf(unit.el.ios)) = 1
    /\ ~Includes(unit.text, BS) =>
         Parsed(ArrayOf(unit.el.ios)[1]) =
           [ok |-> TRUE, texts |-> <<unit.text, unit.text, unit.text>>]

\* a text with a double quote in it, read back from the android selector of
\* byTextContains and from each literal of its ios predicate
C22_Witness ==
  /\ unit.op = "byTextContains"
  /\ unit.text = <<"a", DQ, " ">>
  /\ Parsed(ArrayOf(unit.el.ios)[1]).texts[2] = unit.text
  /\ Parsed(ArrayOf(unit.el.android)[1]).texts = <<unit.text>>

\* a regular expression that matches one text only, and that text: a
\* backslash makes the character behind it literal, a metacharacter with
\* no backslash in front is no literal
RECURSIVE RegexLiteral(_, _)
RegexLiteral(rx, acc) ==
  IF rx = <<>> THEN [ok |-> TRUE, text |-> acc]
  ELSE IF Head(rx) = BS
    THEN IF Len(rx) >= 2
           THEN RegexLiteral(Tail(Tail(rx)), Append(acc, rx[2]))
           ELSE [ok |-> FALSE, text |-> acc]
  ELSE IF Head(rx) \in RegexMeta THEN [ok |-> FALSE, text |-> acc]
  ELSE RegexLiteral(Tail(rx), Append(acc, Head(rx)))

\* the packages byResourceId can know of: the pinned or cached one, the two
\* capabilities, the environment; '' is none
KnownPackages ==
  {p \in unit.was \cup unit.caps.appium \cup unit.caps.legacy \cup unit.env :
     p # <<>>}
Qualifies ==
  /\ KnownPackages # {}
  /\ unit.opts.includePackagePrefix # {FALSE}
  /\ unit.opts.regex # {TRUE}

\* C23: byResourceId gives one android selector and no ios or universal
\* one.  With a package known and neither regex nor includePackagePrefix =
\* false given, it is resourceId("<package>:id/<id>"); in every other case
\* it is resourceIdMatches of the pattern (.+:id/)?<id>$ in which the id
\* matches literally, its metacharacters escaped.
C23_QualifiedOrSuffixPattern ==
  unit.op = "byResourceId" =>
    LET sel == ArrayOf(unit.el.android)[1]
        lit == Parsed(sel)
        text == lit.texts[1]
    IN  /\ unit.el.ios = {}
        /\ unit.el.universal = {}
        /\ Len(ArrayOf(unit.el.android)) = 1
        /\ lit.ok
        /\ Len(lit.texts) = 1
        /\ SubSeq(sel, 1, 2) = <<"android=", "new UiSelector().">>
        /\ IF Qualifies
             THEN /\ sel[3] = "resourceId"
                  /\ \E p \in KnownPackages : text = p \o <<":id/">> \o unit.id
             ELSE /\ sel[3] = "resourceIdMatches"
                  /\ Len(text) >= 2
                  /\ text[1] = "(.+:id/)?"
                  /\ text[Len(text)] = "$"
                  /\ RegexLiteral(SubSeq(text, 2, Len(text) - 1), <<>>) =
                       [ok |-> TRUE, text |-> unit.id]

\* an id with a dot in it, asked for as a pattern although a package was
\* pinned
C23_Witness ==
  /\ unit.op = "byResourceId"
  /\ unit.was = {<<"com.pin">>}
  /\ unit.opts.regex = {TRUE}
  /\ unit.id = <<"a", ".">>
  /\ Parsed(ArrayOf(unit.el.android)[1]).texts =
       << <<"(.+:id/)?", "a", BS, ".", "$">> >>

\* the canonical string of one input: a string as given, trimmed; an object
\* by its strategy, "~<value>" for an accessibility id, the value for a web
\* strategy
Canonical(loc) ==
  IF loc.isString THEN Trim(loc.value)
  ELSE IF loc.using \in {<<"Accessibility ID", " ">>, <<"accessibility id">>}
    THEN <<"~">> \o loc.value
  ELSE loc.value
\* the canonical strings of an argument, in its order, '' left out
RECURSIVE CanonicalList(_)
CanonicalList(items) ==
  IF items = <<>> THEN <<>>
  ELSE (IF Canonical(Head(items)) = <<>> THEN <<>>
        ELSE <<Canonical(Head(items))>>) \o CanonicalList(Tail(items))
CanonicalOf(val) == IF val.given THEN CanonicalList(val.items) ELSE <<>>

Stored(el) ==
  {ArrayOf(el.android)[k] : k \in 1..Len(ArrayOf(el.android))}
    \cup {ArrayOf(el.ios)[k] : k \in 1..Len(ArrayOf(el.ios))}
    \cup {ArrayOf(el.universal)[k] : k \in 1..Len(ArrayOf(el.universal))}

Collected == unit.op = "collect"
Bundle == unit.out.bundle
\* how often a note stands in the notes of the bundle
Noted(note) ==
  Cardinality({k \in 1..Len(Bundle.notes) : Bundle.notes[k] = note})
FailureNotes ==
  Noted("getPageSource() failed") + Noted("android dumpsys parse failed")
    + Noted("iOS Simulator TCC read failed")
\* a query was made and threw
Failed(query) == query \in unit.out.failed
Answered(query) == query \in unit.out.calls \ unit.out.failed

\* C25 as stated: collectFailureBundle never raises; every query that fails
\* (context, contexts, window rectangle, page source, current package,
\* current activity, permission read) adds a note of its own and leaves its
\* field absent, and every query that answers has its field in the bundle.
C25_EveryFailureNoted ==
  Collected =>
    /\ ~unit.out.threw
    /\ FailureNotes >= Cardinality(unit.out.failed)
    /\ Failed("getContext") => Bundle.context = {}
    /\ Answered("getContext") => Bundle.context # {}

\* C25 amended: collectFailureBundle never raises.  A failure of the page
\* source or of the permission read adds one note and leaves the field
\* absent; a failure of the context, the contexts, the window rectangle, the
\* current package or the current activity leaves what that query would
\* have set absent and adds no note; every query that answers has its field
\* in the bundle.
C25_FailuresAbsentTwoNoted ==
  Collected =>
    /\ ~unit.out.threw
    /\ Bundle.context # {} <=> Answered("getContext")
    /\ Bundle.contexts # {} <=> Answered("getContexts")
    /\ Bundle.windowRect # {} <=> Answered("getWindowRect")
    /\ Bundle.pageSource # {} <=> Answered("getPageSource")
    /\ Bundle.app.activity # {} <=> Answered("getCurrentActivity")
    /\ Answered("getCurrentPackage") =>
          unit.inp.getCurrentPackage.value \in
            {{}, {<<>>}, Bundle.app.packageId}
    /\ Failed("getCurrentPackage") =>
          Bundle.app.packageId \in
            {unit.inp.opts.packageId, unit.inp.env.ANDROID_APP_PACKAGE}
    /\ Bundle.permissions # {} <=> Answered("dumpsys") \/ Answered("sqlite3")
    /\ Noted("getPageSource() failed") =
         IF Failed("getPageSource") THEN 1 ELSE 0
    /\ Noted("android dumpsys parse failed") =
         IF Failed("dumpsys") THEN 1 ELSE 0
    /\ Noted("iOS Simulator TCC read failed") =
         IF Failed("sqlite3") THEN 1 ELSE 0
    /\ Len(Bundle.notes) = FailureNotes
         + Noted("packageId not resolved for Android")
         + Noted("iOS permissions collection requires IOS_UDID and bundleId")

\* the context, the contexts, the window rectangle and the page source all
\* fail on android: one note, and the permissions are still read
C25_Witness ==
  /\ Collected
  /\ unit.inp.platform = "android"
  /\ {"getContext", "getContexts", "getWindowRect", "getPageSource",
      "getCurrentActivity"} \subseteq unit.out.failed
  /\ Bundle.context = {}
  /\ Bundle.notes = <<"getPageSource() failed">>
  /\ Bundle.permissions # {}
  /\ Bundle.app.packageId = {<<"com.cur">>}

\* C26: a page source longer than the maximum length L (250 000 unless
\* opts.maxSourceLength is given) is stored as its first L characters and a
\* marker with the number length - L; a page source of at most L characters
\* is stored whole with no marker.  300 000 characters against the default
\* give the marker of 50 000.
C26_TruncatedAtMaxLength ==
  (Collected /\ Answered("getPageSource")) =>
    LET len == unit.inp.getPageSource.len
        L == Nullish(unit.inp.opts.maxSourceLength, 250000)
        stored == Nullish(Bundle.pageSource, Undefined)
    IN  /\ Bundle.pageSource # {}
        /\ len > L => stored = [kept |-> L, truncated |-> {len - L}]
        /\ len <= L => stored = [kept |-> len, truncated |-> {}]
        /\ (len = 300000 /\ L = 250000) => stored.truncated = {50000}

\* 300 000 characters and no opts.maxSourceLength
C26_Witness ==
  /\ Collected
  /\ unit.inp.opts.maxSourceLength = {}
  /\ unit.inp.getPageSource = [threw |-> FALSE, len |-> 300000]
  /\ Bundle.pageSource = {[kept |-> 250000, truncated |-> {50000}]}

\* the dump that was parsed and the permissions made of it
Dump == unit.inp.dumpsys.stdout
Permissions == Nullish(Bundle.permissions, Undefined)
Granted == Nullish(Permissions.granted, <<>>)
Denied == Nullish(Permissions.denied, <<>>)
Names(list) == {list[k] : k \in 1..Len(list)}

\* the dump holds "grantedPermissions:", white space, "[" ... "]"; i, j, k
\* are the places of the word, of "[" and of the first "]" behind it
BlockAt(i, j, k) ==
  /\ i < j /\ j < k
  /\ Dump[i] = "grantedPermissions:"
  /\ Dump[j] = "["
  /\ Dump[k] = "]"
  /\ \A x \in (i + 1)..(j - 1) : Dump[x] \in WhiteSpace
  /\ \A x \in (j + 1)..(k - 1) : Dump[x] # "]"
Places == (1..Len(Dump)) \X (1..Len(Dump)) \X (1..Len(Dump))
Bracketed == \E b \in Places : BlockAt(b[1], b[2], b[3])
\* the entries of the bracketed list that are not empty
BlockNames ==
  {<<Dump[x]>> : x \in {y \in 1..Len(Dump) :
                          /\ Dump[y] \notin WhiteSpace \cup {","}
                          /\ \E b \in Places : /\ BlockAt(b[1], b[2], b[3])
                                               /\ b[2] < y /\ y < b[3]}}
\* the names of the lines "<name> : granted = <bool>"
PairNames(bools) ==
  {<<Dump[x]>> : x \in {y \in 1..Len(Dump) :
     /\ Dump[y] \in AndroidPermissions
     /\ LET rest == SelectSeq(SubSeq(Dump, y + 1, Len(Dump)),
                              LAMBDA t : t \notin {" ", "\t"})
        IN  /\ Len(rest) >= 4
            /\ rest[1] = ":"
            /\ rest[2] \in {"granted", "Granted"}
            /\ rest[3] = "="
            /\ rest[4] \in bools}}
\* a list in the order of sort() with no entry twice
Ascending(list) ==
  \A i, j \in 1..Len(list) :
    i < j => \E x, y \in 1..Len(PermissionOrder) :
               x < y /\ PermissionOrder[x] = list[i]
                     /\ PermissionOrder[y] = list[j]

\* C27: when the dump holds a bracketed grantedPermissions list, granted is
\* the trimmed entries of that list that are not empty and the pair lines
\* are not read; otherwise granted and denied are the names of the lines
\* "<name>: granted=<bool>".  Both lists are sorted and hold no entry twice,
\* and the raw dump is in the bundle only when AUTO_EXPLAIN_INCLUDE_RAW is
\* set.
C27_BlockElsePairs ==
  (Collected /\ Answered("dumpsys")) =>
    /\ Bundle.permissions # {}
    /\ Permissions.granted # {}
    /\ Permissions.denied # {}
    /\ Bracketed => Names(Granted) = BlockNames /\ Denied = <<>>
    /\ ~Bracketed => /\ Names(Granted) = PairNames({"true", "TRUE"})
                     /\ Names(Denied) = PairNames({"false", "FALSE"})
    /\ Ascending(Granted)
    /\ Ascending(Denied)
    /\ Permissions.raw # {} <=>
         unit.inp.env.AUTO_EXPLAIN_INCLUDE_RAW \in {{"1"}, {"Yes"}}
    /\ Permissions.raw \subseteq {Dump}

\* a bracketed list that names READ_CONTACTS twice and in front of CAMERA,
\* and a pair line that denies CAMERA: three granted names in order, none
\* denied, no raw dump
C27_Witness ==
  /\ Collected
  /\ Answered("dumpsys")
  /\ unit.inp.env.AUTO_EXPLAIN_INCLUDE_RAW = {"0"}
  /\ Bracketed
  /\ PairNames({"false", "FALSE"}) # {}
  /\ Permissions.granted = {PermissionOrder}
  /\ Permissions.denied = {<<>>}
  /\ Permissions.raw = {}

\* C28: on ios the TCC table is read only with IOS_UDID and a bundle id; with
\* one of them missing it is not read, the bundle has no permissions and
\* holds the note of the skip once.  On android with no package id resolved
\* the dump is not asked for and the note of that is added.
C28_SkippedWithNote ==
  Collected =>
    LET env == unit.inp.env
        opts == unit.inp.opts
        none == {{}, {<<>>}}
    IN  /\ unit.inp.platform = "ios" =>
              /\ "sqlite3" \in unit.out.calls <=>
                    /\ env.IOS_UDID \notin none
                    /\ opts.bundleId \notin none \/ env.IOS_BUNDLE_ID \notin none
              /\ "sqlite3" \notin unit.out.calls =>
                    /\ Bundle.permissions = {}
                    /\ Noted("iOS permissions collection requires IOS_UDID and bundleId") = 1
                    /\ Noted("iOS Simulator TCC read failed") = 0
        /\ ( /\ unit.inp.platform = "android"
             /\ opts.packageId \in none
             /\ env.ANDROID_APP_PACKAGE \in none
             /\ \/ unit.inp.getCurrentPackage.threw
                \/ unit.inp.getCurrentPackage.value \in none ) =>
              /\ "dumpsys" \notin unit.out.calls
              /\ Bundle.permissions = {}
              /\ Noted("packageId not resolved for Android") = 1

\* IOS_UDID set, no bundle id from the options or the environment
C28_Witness ==
  /\ Collected
  /\ unit.inp.platform = "ios"
  /\ unit.inp.env.IOS_UDID = {<<"UDID-1">>}
  /\ unit.inp.opts.bundleId = {}
  /\ unit.inp.env.IOS_BUNDLE_ID = {}
  /\ "sqlite3" \notin unit.out.calls
  /\ Bundle.permissions = {}
  /\ Bundle.notes =
       <<"iOS permissions collection requires IOS_UDID and bundleId">>

Stepped == unit.op = "step"
\* how often an event stands in the log of the reporter
Reported(event) ==
  Cardinality({k \in 1..Len(unit.out.events) : unit.out.events[k] = event})

\* C29: a call of step starts the report step once and ends it once, as
\* passed when fn returns and as failed when fn raises, and when fn raises
\* its error is what the caller gets, whether the screenshot and the
\* failure bundle could be attached or not.
C29_StartedEndedOnceErrorKept ==
  Stepped =>
    /\ Reported("startStep") = 1
    /\ unit.out.events[1] = "startStep"
    /\ Reported("endStep: passed") + Reported("endStep: failed") = 1
    /\ unit.out.events[Len(unit.out.events)] =
         IF unit.inp.fn.threw THEN "endStep: failed" ELSE "endStep: passed"
    /\ unit.out.raised = IF unit.inp.fn.threw THEN {"fn"} ELSE {}

AlertDone == unit.op \in {"acceptAlert", "dismissAlert"}

\* C30: acceptAlert and dismissAlert never raise.  When the first call of
\* the driver fails they pause once, for the timeout given (5000 ms when
\* none is), call the driver once more and return whatever that call does;
\* when the first call succeeds there is no pause and no second call.
C30_OneRetryNeverRaises ==
  AlertDone =>
    LET name == IF unit.op = "acceptAlert" THEN "driver.acceptAlert"
                ELSE "driver.dismissAlert"
    IN  /\ ~unit.out.threw
        /\ Len(unit.out.calls) \in {1, 2}
        /\ \A k \in 1..Len(unit.out.calls) : unit.out.calls[k] = name
        /\ ~unit.inp.first.threw =>
              Len(unit.out.calls) = 1 /\ unit.out.pauses = <<>>
        /\ unit.inp.first.threw =>
              /\ Len(unit.out.calls) = 2
              /\ Len(unit.out.pauses) = 1
              /\ unit.inp.timeout # {} => unit.out.pauses[1] \in unit.inp.timeout
              /\ unit.inp.timeout = {} => unit.out.pauses[1] = 5000

\* both attempts of dismissAlert fail
C30_Witness ==
  /\ unit.op = "dismissAlert"
  /\ unit.inp.first.threw
  /\ unit.inp.second.threw
  /\ unit.inp.timeout = {ShortPauseMs}
  /\ unit.out = [calls |-> <<"driver.dismissAlert", "driver.dismissAlert">>,
                 pauses |-> <<ShortPauseMs>>, threw |-> FALSE]

(***************************************************************************)
(* C31: attachFailureBundle adds exactly one JSON attachment per call: the  *)
(* serialized bundle when collecting and serializing succeed, the object    *)
(* with the error message when one of them raises.                          *)
(***************************************************************************)
Attached == unit.op = "attachFailureBundle"

C31_ExactlyOneAttachment ==
  Attached =>
    /\ ~unit.out.threw
    /\ Len(unit.out.events) = 1
    /\ ~unit.inp.serialize.threw => unit.out.events = <<"attachment: bundle">>
    /\ unit.inp.serialize.threw => unit.out.events = <<"attachment: error">>

(***************************************************************************)
(* C39: withFallbacks with an argument that normalizes to no locators (an   *)
(* empty array, an array of blank strings) and no other argument completes  *)
(* without error and leaves every list of the element as it was.            *)
(***************************************************************************)
\* an array with no entry but blank strings
NoLocators(val) ==
  /\ val.given
  /\ val.isArray
  /\ \A k \in 1..Len(val.items) :
       /\ val.items[k].isString
       /\ \A c \in 1..Len(val.items[k].value) :
            val.items[k].value[c] \in WhiteSpace

OnlyNoLocators(opts) ==
  /\ \A val \in {opts.android, opts.ios, opts.universal} :
       ~val.given \/ NoLocators(val)
  /\ \E val \in {opts.android, opts.ios, opts.universal} : NoLocators(val)

C39_NoLocatorsNoChange ==
  (unit.op = "withFallbacks" /\ OnlyNoLocators(unit.opts)) =>
    /\ ~unit.threw
    /\ unit.el = unit.before

(***************************************************************************)
(* C40: the package that getAndroidAppPackage resolved stays in use         *)
(***************************************************************************)
\* the first of the sources that holds a non-empty string, none when no
\* source does
RECURSIVE FirstPackage(_)
FirstPackage(sources) ==
  IF sources = <<>> THEN {}
  ELSE IF \E p \in Head(sources) : p # <<>> THEN Head(sources)
  ELSE FirstPackage(Tail(sources))

\* C40: a call of byResourceId that finds a non-empty package in the cache
\* (resolved by an earlier call or set by setAndroidAppPackage) uses that
\* package and keeps it, whatever the capabilities and the environment hold
\* now; a call that finds the cache empty reads appium:appPackage, then
\* appPackage, then ANDROID_APP_PACKAGE, uses the first non-empty one and
\* caches it, and caches nothing when there is none.
C40_PackageCachedUntilSet ==
  unit.op = "byResourceId" =>
    LET held == {p \in unit.was : p # <<>>}
        read == FirstPackage(<<unit.caps.appium, unit.caps.legacy, unit.env>>)
        used == IF held # {} THEN held ELSE read
        text == Parsed(ArrayOf(unit.el.android)[1]).texts[1]
    IN  /\ unit.cache = used
        /\ (unit.opts.includePackagePrefix # {FALSE}
              /\ unit.opts.regex # {TRUE}) =>
             IF used = {} THEN ArrayOf(unit.el.android)[1][3] = "resourceIdMatches"
             ELSE \A p \in used : text = p \o <<":id/">> \o unit.id

\* the package resolved from appium:appPackage by an earlier call is used
\* by a call made after the capabilities lost it and the environment was
\* set
C40_Witness ==
  /\ unit.op = "byResourceId"
  /\ unit.was = {<<"com.app">>}
  /\ unit.caps = [appium |-> {}, legacy |-> {<<"com.old">>}]
  /\ unit.env = {<<"com.env">>}
  /\ unit.opts = [includePackagePrefix |-> {}, regex |-> {}]
  /\ unit.id = <<"a">>
  /\ Parsed(ArrayOf(unit.el.android)[1]).texts[1] = <<"com.app", ":id/", "a">>

(***************************************************************************)
(* C32: start-or-heal with a listed emulator that fails the health check,   *)
(* and with no listed emulator                                              *)
(***************************************************************************)
\* the awaits of startAndroid behind the launch of the emulator
AfterLaunch == {"poll", "waitForDevice", "bootComplete", "waitHealthy", "unlock"}

\* C32: when the listed emulator fails the health check, stopAndroid is
\* called for its serial before any boot command of the attempt; whether
\* "emu kill" fails or not, the launch follows, it is the only boot command
\* of the attempt, and it has -no-snapshot-load whenever
\* ANDROID_COLD_RESTART_ON_FAIL is unset or true.  When the listing shows no
\* emulator, the attempt issues no stop and one boot command, which has
\* -no-snapshot-load only if the cold-boot option asks for it.
C32_StopThenOneBoot ==
  [][ /\ pc = "stop" =>
            /\ cmds.boot = 0
            /\ cmds.kill = 0
            /\ stopLog'[1] = <<"emu kill", androidSerial>>
            /\ cmds'.kill = 1
            /\ cmds'.boot = 0
            /\ pc' = "spawn"
      /\ (pc = "startOrHeal" /\ pc' = "spawn") =>
            /\ stopLog' = <<>>
            /\ cmds'.kill = 0
            /\ cmds'.boot = 0
      /\ pc = "spawn" =>
            /\ pc' = "poll"
            /\ cmds'.boot = 1
            /\ stopLog' = stopLog
            /\ (stopLog # <<>> /\ cfg.coldRestartOnFail \in {{}, {TRUE}}) =>
                 bootArgs'
            /\ stopLog = <<>> => bootArgs' = cfg.coldBoot
      /\ pc \in AfterLaunch =>
            /\ cmds.boot = 1
            /\ cmds'.boot = 1
            /\ stopLog' = stopLog ]_vars

\* "emu kill" failed and kill-server was tried; the emulator was launched
\* all the same, once, with -no-snapshot-load although neither the policy
\* nor the cold-boot option is set
C32_Witness ==
  /\ pc = "poll"
  /\ Len(stopLog) = 2
  /\ stopLog[1][1] = "emu kill"
  /\ cmds.kill = 1
  /\ cmds.boot = 1
  /\ bootArgs
  /\ cfg.coldRestartOnFail = {}
  /\ ~cfg.coldBoot

(***************************************************************************)
(* C33: the serial that a boot records after a stop                         *)
(***************************************************************************)
\* the attempt has called stopAndroid for the unhealthy emulator, launched
\* a new one, and startAndroid has set this.androidSerial from a listing
Rebooted ==
  /\ Android
  /\ stopLog # <<>>
  /\ cmds.boot = 1
  /\ pc \in AfterLaunch \ {"poll"}

\* C33: the serial recorded by the boot that follows the stop of an
\* unhealthy emulator is the one of the instance that boot launched, never
\* the listing entry of the instance that is shutting down.
C33_TracksLaunchedInstance ==
  Rebooted =>
    /\ androidSerial = serial
    /\ hist.adopted = "new"

(***************************************************************************)
(* C34: the emulator processes launched by one ensureReady call             *)
(***************************************************************************)
\* C34: over the attempts of one ensureAndroidReadyWithRetry call, at most
\* one emulator process that the call launched has not been asked to stop:
\* a launch in a later attempt comes after a stopAndroid call that follows
\* the earlier launch.
C34_NoLaunchBeforeStop ==
  Android => hist.launched <= 1

(***************************************************************************)
(* C35: the deadline of waitForBootComplete                                 *)
(***************************************************************************)
\* C35: waitForBootComplete starts with what is left of the boot timeout
\* when "adb wait-for-device" returns, and with 60 000 ms when less is
\* left; its polls are 1500 ms apart; it returns only when
\* sys.boot_completed or dev.bootcomplete has read "1" for the serial; in
\* every other case it goes on polling until the deadline has passed and
\* then throws the boot-timeout error.
C35_BootCompleteDeadline ==
  [][ /\ (pc = "waitForDevice" /\ pc' = "bootComplete") =>
            /\ remaining > 0
            /\ \E elapsed \in WaitElapsed :
                 remaining' = IF remaining - elapsed > 60000
                                THEN remaining - elapsed ELSE 60000
      /\ (pc = "bootComplete" /\ pc' = "bootComplete") =>
            /\ remaining > 0
            /\ remaining' = remaining - 1500
      /\ (pc = "bootComplete" /\ pc' = "waitHealthy") => serial \in sigSeen'
      /\ (pc = "bootComplete" /\ pc' \notin {"bootComplete", "waitHealthy"}) =>
            /\ remaining <= 0
            /\ pc' = "catch"
            /\ err' = Error("bootTimeout", attempt)
      /\ (pc = "bootComplete" /\ remaining <= 0) => pc' # "bootComplete"
    ]_vars

\* a boot timeout of 3000 ms, and the wait for boot completion is about to
\* make its 40th poll, 58 500 ms after it began
C35_Witness ==
  /\ pc = "bootComplete"
  /\ AndroidBootTimeout(cfg) = ShortBootTimeoutMs
  /\ remaining = 1500
  /\ serial \notin sigSeen

(***************************************************************************)
(* C36: who writes the tracked identifier and the started flag              *)
(***************************************************************************)
\* the step is one of onComplete
CompleteStep == hook = "idle" /\ hook' = "idle" /\ last'.hook = "onComplete"

\* C36: the steps of waitForAndroidHealthy, of stopAndroid and of
\* onComplete leave androidSerial, iosUdid and started as they are, the
\* health check of startOrHealAndroid leaves the identifiers as they are;
\* an identifier is written only after a listing (startOrHealAndroid, the
\* poll of startAndroid, startIOS), started only after a passed health
\* check or a finished boot, and started never goes back to false.
C36_WrittenByDiscoveryAndBoot ==
  [][ /\ (pc \in {"waitHealthy", "stop"} \/ CompleteStep) =>
            UNCHANGED <<androidSerial, iosUdid, started>>
      /\ pc = "isHealthy" => UNCHANGED <<androidSerial, iosUdid>>
      /\ androidSerial' # androidSerial => pc \in {"startOrHeal", "poll"}
      /\ iosUdid' # iosUdid => pc \in {"isBooted", "iosFinal"}
      /\ started' # started => pc \in {"isHealthy", "unlock", "iosFinal"}
      /\ started => started' ]_vars

\* onComplete has stopped the emulator: started is still true and the
\* serial is still tracked
C36_Witness ==
  /\ Android
  /\ hook = "idle"
  /\ last.hook = "onComplete"
  /\ stopLog # <<>>
  /\ started
  /\ androidSerial \in EmulatorSerials

(***************************************************************************)
(* C37: the recovery between the attempts of ensureAndroidReadyWithRetry    *)
(***************************************************************************)
\* the errors startOrHealAndroid throws
StartOrHealErrors ==
  {"listFailed", "appearTimeout", "commandFailed", "bootTimeout",
   "healthcheckFailed"}

\* C37: every failed attempt is followed by one "adb start-server", issued
\* before the backoff sleep when another attempt follows and before the
\* rethrow when none does; the error that is raised in the end is the one
\* startOrHealAndroid threw in the last attempt, whatever became of the
\* restart commands.
C37_RestartThenBackoff ==
  (Android /\ last.hook # "onComplete") =>
    LET log == hist.recovery
    IN  /\ Len(log) = 2 * Len(sleeps) + (IF Raised THEN 2 ELSE 0)
        /\ hook # "idle" => Len(sleeps) = attempt
        /\ \A k \in 1..Len(log) :
             log[k] = IF k % 2 = 1 THEN "start-server"
                      ELSE IF Raised /\ k = Len(log) THEN "throw"
                      ELSE "sleep"
        /\ Raised =>
             /\ last.err.kind \in StartOrHealErrors
             /\ last.err.at = last.attempts - 1

\* two attempts failed: a restart and a sleep of 1500 ms after the first,
\* a restart and the rethrow of the health-check error after the second
C37_Witness ==
  /\ Raised
  /\ last.attempts = 2
  /\ sleeps = <<1500>>
  /\ hist.recovery = <<"start-server", "sleep", "start-server", "throw">>
  /\ last.err = Error("healthcheckFailed", 1)

(***************************************************************************)
(* C38: no AVD name                                                         *)
(***************************************************************************)
\* C38: with neither opts.android.avdName nor ANDROID_EMULATOR_NAME, the
\* hooks onPrepare and beforeSession return at their first attempt and no
\* command, sleep or error ever comes of any hook: started stays false, no
\* serial is tracked, and onComplete stops nothing.
C38_NoProfileNothingDone ==
  (Android /\ cfg.avdName = {}) =>
    /\ cmds = NoCmds
    /\ stopLog = <<>>
    /\ sleeps = <<>>
    /\ hist = NoHist
    /\ ~started
    /\ androidSerial = Undefined
    /\ last.status # "raised"
    /\ last.hook \in {"onPrepare", "beforeSession"} =>
         /\ last.via = "skipped"
         /\ last.attempts = 1
    /\ last.hook = "onComplete" => last.via = "notStarted"

\* beforeSession has returned without an AVD name
C38_Witness ==
  /\ Android
  /\ cfg.avdName = {}
  /\ hook = "idle"
  /\ last.hook = "beforeSession"
  /\ last.status = "returned"
  /\ last.via = "skipped"

====
